---- MODULE Spec2Model ----
(***************************************************************************)
(* The transaction-extraction engine of subtrack's backend.                *)
(*                                                                         *)
(* process_document (backend/main.py) tries three strategies on a PDF:     *)
(* parse_pdf_fast (balance spine + delta inference, backend/fast_parser.py)*)
(* parse_pdf_slow (visual layout, backend/slow_parser.py) and              *)
(* parse_transactions_from_text (regex lines, backend/services/parsers.py).*)
(*                                                                         *)
(* Units.  Money is held in cents (an integer): statement amounts are      *)
(* printed with two decimals, so round(x, 2) of a difference of two        *)
(* printed amounts is that difference in cents.  Coordinates are integer   *)
(* layout units.  A vertical midpoint (top + bottom) / 2 is compared       *)
(* doubled, so no halves occur.                                            *)
(*                                                                         *)
(* Python values.  None is the record None below; a list is List(s).  A    *)
(* dict is a record whose DOMAIN is its key set.  An optional key of a     *)
(* word (numeric_value) is a sequence of length 0 or 1.                    *)
(***************************************************************************)
EXTENDS Integers, Sequences, FiniteSets, TLC

VARIABLES
    pc,                 \* position of the request inside process_document
    file,               \* the uploaded document (what the collaborators read)
    all_words,          \* parse_pdf_fast: the word dicts of every page
    numeric_tokens,     \* parse_pdf_fast: the words kept by the filter
    balance_spine,      \* parse_pdf_fast: the selected spine
    fast_txns,          \* parse_pdf_fast: the list built by _infer_from_deltas
    fast_result,        \* parse_pdf_fast: the pair it returns
    transactions,       \* process_document local
    validation,         \* process_document local
    processing_method,  \* process_document local
    extracted_text,     \* process_document local (the text handed to the regex parser)
    response,           \* what the caller receives
    invoked             \* the strategies called so far, in call order

vars == <<pc, file, all_words, numeric_tokens, balance_spine, fast_txns,
          fast_result, transactions, validation, processing_method,
          extracted_text, response, invoked>>

----------------------------------------------------------------------------
(* Bounds of the model and constants of the program                        *)

\* Most transaction rows of an uploaded statement.
MaxRows == 3
\* Most lines of an extracted text.
MaxLines == 3
\* Largest count a statement footer declares.
MaxFooterCount == 2

\* fast_parser.py: x-distance under which a token joins a cluster.
XTolerance == 20
\* fast_parser.py: fewest tokens of a cluster that may become the spine.
MinDensity == 5
\* fast_parser.py: tokens of one page closer than this in top are one row.
RowTolerance == 5
\* fast_parser.py: fewest points of a usable spine.
MinSpine == 3
\* fast_parser.py: vertical midpoint distance under which a word is on the
\* anchor's row (_find_nearest_date_token, _find_row_text).
DateRowTolerance == 10
\* fast_parser.py: ceiling of a balance, in currency units.
MagnitudeCeiling == 100000000

----------------------------------------------------------------------------
(* Python values                                                           *)

None == [none |-> TRUE, items |-> <<>>]
List(s) == [none |-> FALSE, items |-> s]
\* A test for None in place of the truthiness of the list.
NotNone(v) == ~v.none
\* Python truthiness of a list-or-None
Truthy(v) == ~v.none /\ Len(v.items) > 0

Abs(x) == IF x < 0 THEN -x ELSE x
Min(S) == CHOOSE x \in S : \A y \in S : x <= y

\* The indices 1..Len(s) in the order a stable sort by Before puts them, as
\* list.sort does: i comes ahead of j when s[i] is before s[j], or neither is
\* before the other and i < j.
SortedBy(s, Before(_, _)) ==
    LET n == Len(s)
        ahead(i) == {j \in 1..n : Before(s[j], s[i])
                                  \/ (~Before(s[i], s[j]) /\ j < i)}
        rank == [i \in 1..n |-> Cardinality(ahead(i))]
    IN [r \in 1..n |-> s[CHOOSE i \in 1..n : rank[i] = r - 1]]

----------------------------------------------------------------------------
(* Words: what pdfplumber's extract_words yields                           *)

\* The text of a word, by what the parsers' conversions and patterns read
\* of it.  kind "num": a number of val cents, written with a decimal point
\* iff dot, followed by suffix ("", "Cr", "Dr"); when whole, val counts whole
\* currency units instead (a number too large to count in cents; such
\* words stand only on pages without statement rows).  kind "date": day sep
\* month sep year, the month written as a 3-letter name iff mon, the year
\* with ydigits digits.  kind "word": the string w.  kind "footer": the
\* string w followed by a count, "Total Dr Count : n" (dr = <<n>>) or
\* "Total Cr Count : n" (cr = <<n>>).
BlankText ==
    [kind |-> "word", w |-> "", val |-> 0, dot |-> FALSE, suffix |-> "",
     day |-> 0, month |-> 0, year |-> 0, ydigits |-> 0, sep |-> "", mon |-> FALSE,
     whole |-> FALSE,
     dr |-> <<>>, cr |-> <<>>]
NumText(v) == [BlankText EXCEPT !.kind = "num", !.val = v, !.dot = TRUE]
RefText(v) == [BlankText EXCEPT !.kind = "num", !.val = v, !.dot = FALSE]
BigText(v) == [BlankText EXCEPT !.kind = "num", !.val = v, !.dot = TRUE, !.whole = TRUE]
DateText(d, m, y, yd, sep, mon) ==
    [BlankText EXCEPT !.kind = "date", !.day = d, !.month = m, !.year = y,
                      !.ydigits = yd, !.sep = sep, !.mon = mon]
WordText(s) == [BlankText EXCEPT !.w = s]
DrFooterText(n) == [BlankText EXCEPT !.kind = "footer", !.w = "Total Dr Count :", !.dr = <<n>>]
CrFooterText(n) == [BlankText EXCEPT !.kind = "footer", !.w = "Total Cr Count :", !.cr = <<n>>]

\* The letters of a text as a string, for the substring tests of the parsers
\* (keywords, markers); digits and separators of a number or date are "0".
Letters(text) == IF text.kind \in {"word", "footer"} THEN text.w ELSE "0"

\* kw in s
Contains(s, kw) ==
    \E i \in 1..(Len(s) - Len(kw) + 1) : SubSeq(s, i, i + Len(kw) - 1) = kw

UpperAlphabet == "ABCDEFGHIJKLMNOPQRSTUVWXYZ"
LowerAlphabet == "abcdefghijklmnopqrstuvwxyz"
\* The letters of `from`, each mapped to the letter of `to` in its place.
CharMap(from, to) ==
    [c \in {SubSeq(from, i, i) : i \in 1..Len(from)} |->
        LET i == CHOOSE i \in 1..Len(from) : SubSeq(from, i, i) = c
        IN SubSeq(to, i, i)]
ToLower == CharMap(UpperAlphabet, LowerAlphabet)
ToUpper == CharMap(LowerAlphabet, UpperAlphabet)
MapChar(c, map) == IF c \in DOMAIN map THEN map[c] ELSE c
RECURSIVE MapString(_, _, _)
MapString(s, i, map) ==
    IF i > Len(s) THEN ""
    ELSE MapChar(SubSeq(s, i, i), map) \o MapString(s, i + 1, map)
\* str.lower(), str.upper()
Lower(s) == MapString(s, 1, ToLower)
Upper(s) == MapString(s, 1, ToUpper)

\* " ".join(strings)
RECURSIVE JoinSpace(_)
JoinSpace(strings) ==
    IF strings = <<>> THEN ""
    ELSE IF Len(strings) = 1 THEN strings[1]
    ELSE strings[1] \o " " \o JoinSpace(Tail(strings))

Word(text, x0, x1, top, page) ==
    [text |-> text, x0 |-> x0, x1 |-> x1, top |-> top, bottom |-> top + 10,
     page |-> page, numeric_value |-> <<>>]

----------------------------------------------------------------------------
(* backend/fast_parser.py                                                  *)

\* sort key (t['page'], t['top'])
PageTopBefore(a, b) == a.page < b.page \/ (a.page = b.page /\ a.top < b.top)

\* float(text) of the text with ',' removed and a trailing Cr/Dr cut off
ParsesAsFloat(text) == text.kind = "num"

\* '.' in w['text'] and val < 100000000
NumericAccepted(w) ==
    /\ ParsesAsFloat(w.text)
    /\ w.text.dot
    /\ (IF w.text.whole THEN w.text.val ELSE w.text.val \div 100) < MagnitudeCeiling

\* w['numeric_value'] = val : the word dict itself gets the new key
MarkNumeric(w) ==
    IF NumericAccepted(w) THEN [w EXCEPT !.numeric_value = <<w.text.val>>] ELSE w

\* The word dicts after the filter ran over them.
WordsAfterFilter(words) == [i \in 1..Len(words) |-> MarkNumeric(words[i])]

\* A filter that passes over the words an earlier run has marked.
_filter_unmarked_tokens(words) ==
    WordsAfterFilter(SelectSeq(words,
        LAMBDA w : NumericAccepted(w) /\ w.numeric_value = <<>>))
_filter_numeric_tokens(words) ==
    SelectSeq(WordsAfterFilter(words), NumericAccepted)

\* The clustering loop: a token joins the first cluster (in creation order)
\* whose key is nearer than the tolerance, else it starts a cluster keyed by
\* its own x0.
RECURSIVE ClusterByX(_, _)
ClusterByX(numerics, clusters) ==
    IF numerics = <<>> THEN clusters
    ELSE LET w == Head(numerics)
             hits == {c \in 1..Len(clusters) :
                        Abs(w.x0 - clusters[c].center_x) < XTolerance}
         IN ClusterByX(Tail(numerics),
                IF hits = {}
                THEN Append(clusters, [center_x |-> w.x0, tokens |-> <<w>>])
                ELSE [clusters EXCEPT ![Min(hits)].tokens = Append(@, w)])

\* Only a token at the very top of the last one kept is dropped.
RECURSIVE CollapseSameTop(_, _, _, _)
CollapseSameTop(tokens, filtered, last_y, last_page) ==
    IF tokens = <<>> THEN filtered
    ELSE LET t == Head(tokens)
         IN IF t.page = last_page /\ t.top = last_y
            THEN CollapseSameTop(Tail(tokens), filtered, last_y, last_page)
            ELSE CollapseSameTop(Tail(tokens), Append(filtered, t), t.top, t.page)
\* "Only one token per Y-row": a token is dropped when it is on last_page
\* and nearer than the row tolerance to last_y, the top of the last token kept.
RECURSIVE CollapseRows(_, _, _, _)
CollapseRows(tokens, filtered, last_y, last_page) ==
    IF tokens = <<>> THEN filtered
    ELSE LET t == Head(tokens)
         IN IF t.page = last_page /\ Abs(t.top - last_y) < RowTolerance
            THEN CollapseRows(Tail(tokens), filtered, last_y, last_page)
            ELSE CollapseRows(Tail(tokens), Append(filtered, t), t.top, t.page)

\* The scoring loop letting a later cluster of equal size win.
RECURSIVE BestSpineLatest(_, _)
BestSpineLatest(clusters, best_spine) ==
    IF clusters = <<>> THEN best_spine
    ELSE LET tokens == SortedBy(Head(clusters).tokens, PageTopBefore)
             filtered == CollapseRows(tokens, <<>>, -100, -1)
         IN BestSpineLatest(Tail(clusters),
                IF Len(tokens) < MinDensity THEN best_spine
                ELSE IF Len(filtered) >= Len(best_spine) THEN filtered
                ELSE best_spine)
\* The scoring loop over clusters.items(), in creation order.
RECURSIVE BestSpine(_, _)
BestSpine(clusters, best_spine) ==
    IF clusters = <<>> THEN best_spine
    ELSE LET tokens == SortedBy(Head(clusters).tokens, PageTopBefore)
             filtered == CollapseRows(tokens, <<>>, -100, -1)
         IN BestSpine(Tail(clusters),
                IF Len(tokens) < MinDensity THEN best_spine
                ELSE IF Len(filtered) > Len(best_spine) THEN filtered
                ELSE best_spine)

_find_best_balance_spine(numerics) == BestSpine(ClusterByX(numerics, <<>>), <<>>)

\* The row test left out: any word of the page left of the anchor.
SamePageLeft(w, anchor) == w.page = anchor.page /\ w.x1 < anchor.x0
\* A word of the anchor's page, on its row and wholly left of it.
SameRowLeft(w, anchor) ==
    /\ w.page = anchor.page
    /\ Abs((w.top + w.bottom) - (anchor.top + anchor.bottom)) < 2 * DateRowTolerance
    /\ w.x1 < anchor.x0

\* date_pattern.search(w['text']):
\* (\d{1,2})[/\-\.](?:\d{1,2}|[A-Za-z]{3})[/\-\.](\d{2,4})
FastDatePattern(text) == text.kind = "date" /\ text.sep \in {"/", "-", "."}

\* The conversion inside the try block: <<iso>>, or <<>> when it raises.
\* The pattern's two groups are the day and the year, so p2 is never a key
\* of month_map and every match takes the numeric-month branch, whose
\* re.search returns None on a month name (full_match.groups() raises).
FastYear(year) == IF year < 100 THEN 2000 + year ELSE year
FastDateToIso(text) ==
    IF text.mon THEN <<>>
    ELSE <<[year |-> FastYear(text.year), month |-> text.month, day |-> text.day]>>

X0Before(a, b) == a.x0 < b.x0

\* <<iso>> of the left-most candidate, <<>> for None
_find_nearest_date_token(anchor_token, words) ==
    LET dated(w) == /\ SameRowLeft(w, anchor_token)
                    /\ FastDatePattern(w.text)
                    /\ FastDateToIso(w.text) # <<>>
        candidates == SortedBy(SelectSeq(words, dated), X0Before)
    IN IF candidates # <<>> THEN FastDateToIso(candidates[1].text) ELSE <<>>

\* the texts joined by " ", kept as the list of the texts
_find_row_text(anchor_token, words) ==
    LET onRow(w) == SameRowLeft(w, anchor_token)
        row == SelectSeq(words, onRow)
    IN [i \in 1..Len(row) |-> row[i].text]

\* delta = round(curr - prev, 2), in cents
SpineDelta(prev, curr) == curr.numeric_value[1] - prev.numeric_value[1]
\* The zero-delta test left out.
NeverZeroDelta(delta) == FALSE
\* abs(delta) < 0.01
IsZeroDelta(delta) == Abs(delta) < 1
DeltaType(delta) == IF delta < 0 THEN "debit" ELSE "credit"
\* The amount of a debit left signed.
SignedDelta(delta) == delta
DeltaAmount(delta) == IF delta < 0 THEN Abs(delta) ELSE delta

\* The transaction of the pair ending at curr, dated date_str[1].
InferredTransaction(delta, curr, date_str, description) ==
    [date |-> date_str[1],
     amount |-> DeltaAmount(delta),
     transactionType |-> DeltaType(delta),
     merchantRaw |-> description,
     closingBalance |-> curr.numeric_value[1],
     confidenceScore |-> 100]

\* Whether the loop body appends for the pair ending at curr.
EmitsFor(delta, date_str) == ~IsZeroDelta(delta) /\ date_str # <<>>

\* for i in range(1, len(spine))
RECURSIVE InferLoop(_, _, _, _)
InferLoop(spine, words, i, txns) ==
    IF i > Len(spine) THEN txns
    ELSE LET prev == spine[i - 1]
             curr == spine[i]
             delta == SpineDelta(prev, curr)
             date_str == _find_nearest_date_token(curr, words)
             description == _find_row_text(curr, words)
         IN InferLoop(spine, words, i + 1,
                IF EmitsFor(delta, date_str)
                THEN Append(txns, InferredTransaction(delta, curr, date_str, description))
                ELSE txns)

\* spine.sort(...) sorts the caller's list in place, then the loop runs.
SortedSpine(spine) == SortedBy(spine, PageTopBefore)
_infer_from_deltas(spine, words) == InferLoop(SortedSpine(spine), words, 2, <<>>)

\* (is_valid, validation_stats)
_validate_mathematically(txns) ==
    IF txns = <<>>
    THEN [is_valid |-> FALSE, stats |-> [error |-> "No transactions inferred"]]
    ELSE [is_valid |-> TRUE,
          stats |-> [method |-> "fast_balance_spine", count |-> Len(txns)]]

----------------------------------------------------------------------------
(* backend/slow_parser.py : class BankStatementParser                      *)

\* slow_parser.py: tokens nearer than this to the row's first top share its row.
VisualRowTolerance == 5
\* slow_parser.py: fewest header categories on a line for it to be the header.
MinHeaderMatches == 3
\* slow_parser.py: header categories found after which no further page is scanned.
EnoughHeaders == 4
\* slow_parser.py: buffer added under the header line.
HeaderBuffer == 2
\* slow_parser.py: padding taken off a column's left edge.
ColumnPadding == 20
\* slow_parser.py: right edge of the last column.
MaxWidth == 1000
\* slow_parser.py: footer_y when the page has no footer.
NoFooterY == 10000
\* slow_parser.py: how many of the lowest words are searched for "Total".
FooterScanWords == 50

TopBefore(a, b) == a.top < b.top
TopAfter(a, b) == a.top > b.top
ReadingBefore(a, b) == a.top < b.top \/ (a.top = b.top /\ a.x0 < b.x0)

\* The words of page p (0-based), in extraction order.
PageWords(words, p) == SelectSeq(words, LAMBDA w : w.page = p)

TextsOf(ws) == [i \in 1..Len(ws) |-> ws[i].text]
LettersOf(texts) == [i \in 1..Len(texts) |-> Letters(texts[i])]

\* The distinct tops of the words, in order of first occurrence.
RECURSIVE DistinctTops(_, _)
DistinctTops(words, seen) ==
    IF words = <<>> THEN seen
    ELSE DistinctTops(Tail(words),
            IF \E i \in 1..Len(seen) : seen[i] = Head(words).top
            THEN seen ELSE Append(seen, Head(words).top))

LineAt(words, y) == SelectSeq(words, LAMBDA w : w.top = y)

\* page.extract_text(): one string per printed line, top to bottom
PageTextLines(page_words) ==
    LET sorted == SortedBy(page_words, ReadingBefore)
        tops == DistinctTops(sorted, <<>>)
    IN [i \in 1..Len(tops) |-> JoinSpace(LettersOf(TextsOf(LineAt(sorted, tops[i]))))]

PageTextContains(page_words, kw) ==
    LET lines == PageTextLines(page_words)
    IN \E i \in 1..Len(lines) : Contains(lines[i], kw)

\* _find_footer_y
_find_footer_y(page_words) ==
    IF PageTextContains(page_words, "Total Dr Count")
    THEN LET sorted_words == SortedBy(page_words, TopAfter)
             lowest == SubSeq(sorted_words, 1,
                              IF Len(sorted_words) < FooterScanWords
                              THEN Len(sorted_words) ELSE FooterScanWords)
             hits == {i \in 1..Len(lowest) : Contains(Letters(lowest[i].text), "Total")}
         IN IF hits # {} THEN lowest[Min(hits)].top ELSE NoFooterY
    ELSE NoFooterY

\* header_keywords, in the dict's order
HeaderKeyOrder ==
    <<"Date", "Narration", "Chq", "ValueDate", "Withdrawal", "Deposit", "Balance">>
HeaderVariations(key) ==
    CASE key = "Date" -> {"date", "txn date"}
      [] key = "Narration" -> {"narration", "description", "particulars"}
      [] key = "Chq" -> {"chq./ref.no.", "ref no", "cheque", "chq"}
      [] key = "ValueDate" -> {"value dt", "value date"}
      [] key = "Withdrawal" -> {"withdrawal", "debit", "dr amt"}
      [] key = "Deposit" -> {"deposit", "credit", "cr amt"}
      [] key = "Balance" -> {"closing balance", "balance"}

\* any(v.lower() in txt for v in variations), txt already lower case
MatchesKey(txt, key) == \E v \in HeaderVariations(key) : Contains(txt, v)
KeysMatched(txt) == {HeaderKeyOrder[k] : k \in {k \in 1..Len(HeaderKeyOrder) :
                                                  MatchesKey(txt, HeaderKeyOrder[k])}}

\* The header search on one page: the first line with the most categories
\* (at least three) among the lines in order of first occurrence.
RECURSIVE BestHeaderLine(_, _, _)
BestHeaderLine(words, tops, best) ==
    IF tops = <<>> THEN best
    ELSE LET line_words == LineAt(words, Head(tops))
             line_text == Lower(JoinSpace(LettersOf(TextsOf(line_words))))
             matches == Cardinality(KeysMatched(line_text))
         IN BestHeaderLine(words, Tail(tops),
                IF matches >= MinHeaderMatches /\ matches > best.max_matches
                THEN [best_line |-> line_words, max_matches |-> matches,
                      header_bottom_y |-> line_words[1].bottom + HeaderBuffer]
                ELSE best)

\* found_headers after the words of the best line were looked at; a list of
\* [key, x0, x1] in insertion order.
RECURSIVE AddHeaders(_, _)
AddHeaders(best_line, found_headers) ==
    IF best_line = <<>> THEN found_headers
    ELSE LET w == Head(best_line)
             txt == Lower(Letters(w.text))
             fresh(k) == /\ MatchesKey(txt, k)
                         /\ ~\E i \in 1..Len(found_headers) : found_headers[i].key = k
             new == SelectSeq(HeaderKeyOrder, fresh)
         IN AddHeaders(Tail(best_line),
                found_headers \o [i \in 1..Len(new) |->
                                    [key |-> new[i], x0 |-> w.x0, x1 |-> w.x1]])

\* The loop over the pages handed to _detect_header_layout.
RECURSIVE ScanHeaderPages(_, _, _, _)
ScanHeaderPages(words, pages, found_headers, header_bottom_y) ==
    IF pages = <<>>
    THEN [found_headers |-> found_headers, header_bottom_y |-> header_bottom_y]
    ELSE LET pw == PageWords(words, Head(pages))
             best == BestHeaderLine(pw, DistinctTops(pw, <<>>),
                        [best_line |-> <<>>, max_matches |-> 0,
                         header_bottom_y |-> header_bottom_y])
             found == IF best.best_line # <<>>
                      THEN AddHeaders(best.best_line, found_headers)
                      ELSE found_headers
         IN IF best.best_line # <<>> /\ Len(found) >= EnoughHeaders
            THEN [found_headers |-> found, header_bottom_y |-> best.header_bottom_y]
            ELSE ScanHeaderPages(words, Tail(pages), found, best.header_bottom_y)

\* "Post-process ranges": the column map, a list of [col, x0, x1] in the
\* dict's order (sorted by the header words' x0).
BuildColumnMap(found_headers) ==
    LET sorted_keys == SortedBy(found_headers, X0Before)
    IN [i \in 1..Len(sorted_keys) |->
          [col |-> sorted_keys[i].key,
           x0 |-> sorted_keys[i].x0 - ColumnPadding,
           x1 |-> IF i < Len(sorted_keys) THEN sorted_keys[i + 1].x0 ELSE MaxWidth]]

\* [column_map, header_bottom_y] for the first two pages of a document
_detect_header_layout(words, num_pages) ==
    LET pages == [i \in 1..(IF num_pages < 2 THEN num_pages ELSE 2) |-> i - 1]
        scan == ScanHeaderPages(words, pages, <<>>, 0)
    IN [column_map |-> BuildColumnMap(scan.found_headers),
        header_bottom_y |-> scan.header_bottom_y]

RECURSIVE GroupRows(_, _, _, _)
GroupRows(words, rows, current_row, last_top) ==
    IF words = <<>>
    THEN IF current_row # <<>> THEN Append(rows, current_row) ELSE rows
    ELSE LET w == Head(words)
         IN IF current_row = <<>>
            THEN GroupRows(Tail(words), rows, <<w>>, w.top)
            ELSE IF Abs(w.top - last_top) < VisualRowTolerance
            THEN GroupRows(Tail(words), rows, Append(current_row, w), last_top)
            ELSE GroupRows(Tail(words), Append(rows, current_row), <<w>>, w.top)

_extract_visual_rows(page_words) ==
    GroupRows(SortedBy(page_words, TopBefore), <<>>, <<>>, 0)

\* The rows of one page that parse() keeps.
KeptRows(page_words, p, header_y_bottom) ==
    LET footer_y == _find_footer_y(page_words)
        keep(row) == /\ ~(p = 0 /\ header_y_bottom # 0 /\ row[1].top < header_y_bottom)
                     /\ ~(footer_y # 0 /\ row[1].top > footer_y)
    IN SelectSeq(_extract_visual_rows(page_words), keep)

RECURSIVE AllRows(_, _, _, _)
AllRows(words, p, num_pages, header_y_bottom) ==
    IF p >= num_pages THEN <<>>
    ELSE KeptRows(PageWords(words, p), p, header_y_bottom)
         \o AllRows(words, p + 1, num_pages, header_y_bottom)

\* The column (index into column_map) of a word: the first one whose
\* interval x0 <= center_x <= x1 holds the word's midpoint; 0 for none.
ColumnOf(w, column_map) ==
    LET hits == {c \in 1..Len(column_map) :
                    /\ 2 * column_map[c].x0 <= w.x0 + w.x1
                    /\ w.x0 + w.x1 <= 2 * column_map[c].x1}
    IN IF hits = {} THEN 0 ELSE Min(hits)

\* mapped: column name -> the texts of the row's words put in it
_map_row_to_columns(row, column_map) ==
    IF column_map = <<>>
    THEN [c \in {"Narration"} |-> TextsOf(row)]
    ELSE LET at == [i \in 1..Len(row) |-> ColumnOf(row[i], column_map)]
             placed == {i \in 1..Len(row) : at[i] # 0}
             cols == {column_map[at[i]].col : i \in placed}
             RECURSIVE TextsIn(_, _)
             TextsIn(c, i) ==
                IF i > Len(row) THEN <<>>
                ELSE (IF i \in placed /\ column_map[at[i]].col = c
                      THEN <<row[i].text>> ELSE <<>>) \o TextsIn(c, i + 1)
         IN [c \in cols |-> TextsIn(c, 1)]

\* mapped.get(col, "")
MappedGet(mapped, col) == IF col \in DOMAIN mapped THEN mapped[col] ELSE <<>>

\* date_pattern ^(\d{1,2})/(\d{1,2})/(\d{2,4}) at the start of a text
SlowDatePattern(text) == text.kind = "date" /\ text.sep = "/" /\ ~text.mon

SlowYear(year) == IF year < 100 THEN 2000 + year ELSE year
SlowDateToIso(text) ==
    [year |-> SlowYear(text.year), month |-> text.month, day |-> text.day]

\* The date text of a row: <<text>>, or <<>> when the row starts no transaction.
RowDate(row, mapped, column_map) ==
    IF "Date" \in DOMAIN mapped /\ mapped["Date"] # <<>>
       /\ SlowDatePattern(mapped["Date"][1])
    THEN <<mapped["Date"][1]>>
    ELSE IF column_map = <<>> /\ SlowDatePattern(row[1].text)
    THEN <<row[1].text>>
    ELSE <<>>

\* The loop of _process_transaction_rows; current_txn is <<>> for None.
RECURSIVE ProcessRows(_, _, _, _)
ProcessRows(rows, column_map, temp_transactions, current_txn) ==
    IF rows = <<>> THEN temp_transactions \o current_txn
    ELSE LET row == Head(rows)
             mapped == _map_row_to_columns(row, column_map)
             date_str == RowDate(row, mapped, column_map)
         IN IF date_str # <<>>
            THEN ProcessRows(Tail(rows), column_map,
                    temp_transactions \o current_txn,
                    <<[date |-> SlowDateToIso(date_str[1]),
                       merchantRaw |-> MappedGet(mapped, "Narration"),
                       withdrawal |-> MappedGet(mapped, "Withdrawal"),
                       deposit |-> MappedGet(mapped, "Deposit"),
                       balance |-> MappedGet(mapped, "Balance")]>>)
            ELSE IF current_txn # <<>> /\ MappedGet(mapped, "Narration") # <<>>
            THEN ProcessRows(Tail(rows), column_map, temp_transactions,
                    <<[current_txn[1] EXCEPT
                         !.merchantRaw = @ \o MappedGet(mapped, "Narration")]>>)
            ELSE ProcessRows(Tail(rows), column_map, temp_transactions, current_txn)

\* skip_patterns, searched in the upper-cased narration
SkipMarkers == {"BROUGHT FORWARD", "CARRIED FORWARD", "OPENING BALANCE",
                "CLOSING BALANCE", "TOTAL "}
IsSkipped(merchantRaw) ==
    LET raw_upper == Upper(JoinSpace(LettersOf(merchantRaw)))
    IN \E m \in SkipMarkers : Contains(raw_upper, m)

\* float(s) if s else 0.0, with 0.0 when float raises; s is a column's text
ColumnAmount(texts) ==
    IF Len(texts) = 1 /\ texts[1].kind = "num" /\ texts[1].suffix = ""
    THEN texts[1].val ELSE 0

\* The withdrawal column winning whenever it is filled.
RefinedTypeWithdrawalFirst(w_val, d_val) ==
    IF w_val > 0 THEN "debit" ELSE IF d_val > 0 THEN "credit" ELSE "debit"
RefinedType(w_val, d_val) ==
    IF w_val > 0 /\ d_val = 0 THEN "debit"
    ELSE IF d_val > 0 /\ w_val = 0 THEN "credit"
    ELSE IF w_val > 0 /\ d_val > 0 THEN (IF w_val > d_val THEN "debit" ELSE "credit")
    ELSE "debit"
RefinedAmount(w_val, d_val) ==
    IF w_val > 0 /\ d_val = 0 THEN w_val
    ELSE IF d_val > 0 /\ w_val = 0 THEN d_val
    ELSE IF w_val > 0 /\ d_val > 0 THEN (IF w_val > d_val THEN w_val ELSE d_val)
    ELSE 0

Refined(t) ==
    LET w_val == ColumnAmount(t.withdrawal)
        d_val == ColumnAmount(t.deposit)
        b_val == ColumnAmount(t.balance)
    IN [date |-> t.date,
        merchantRaw |-> t.merchantRaw,
        amount |-> RefinedAmount(w_val, d_val),
        transactionType |-> RefinedType(w_val, d_val),
        closingBalance |-> b_val,
        confidenceScore |-> IF w_val # 0 \/ d_val # 0 THEN 95 ELSE 50,
        description |-> "None"]

_refine_and_validate(raw_txns) ==
    LET kept == SelectSeq(raw_txns, LAMBDA t : ~IsSkipped(t.merchantRaw))
    IN [i \in 1..Len(kept) |-> Refined(kept[i])]

_process_transaction_rows(rows, column_map) ==
    _refine_and_validate(ProcessRows(rows, column_map, <<>>, <<>>))

\* re.findall of a footer pattern over a page's text: the counts, in reading order
FooterCounts(page_words, which) ==
    LET sorted == SortedBy(page_words, ReadingBefore)
        hit(w) == w.text.kind = "footer" /\ w.text[which] # <<>>
        ws == SelectSeq(sorted, hit)
    IN [i \in 1..Len(ws) |-> ws[i].text[which][1]]

CountType(txns, type) ==
    Cardinality({i \in 1..Len(txns) : txns[i].transactionType = type})

\* self.validation after _extract_footer_validation read the last page
_extract_footer_validation(words, num_pages, txns) ==
    LET last == IF num_pages > 0 THEN PageWords(words, num_pages - 1) ELSE <<>>
        dr_matches == FooterCounts(last, "dr")
        cr_matches == FooterCounts(last, "cr")
        expectedDr == IF dr_matches # <<>> THEN dr_matches[Len(dr_matches)] ELSE 0
        expectedCr == IF cr_matches # <<>> THEN cr_matches[Len(cr_matches)] ELSE 0
        found == dr_matches # <<>> \/ cr_matches # <<>>
        actual_dr == CountType(txns, "debit")
        actual_cr == CountType(txns, "credit")
        base == [expectedDrCount |-> expectedDr, expectedCrCount |-> expectedCr,
                 foundFooter |-> found]
    IN IF found
       THEN [expectedDrCount |-> expectedDr, expectedCrCount |-> expectedCr,
             foundFooter |-> found,
             matches |-> (expectedDr = actual_dr /\ expectedCr = actual_cr),
             actualDrCount |-> actual_dr, actualCrCount |-> actual_cr]
       ELSE base

\* BankStatementParser(pdf_path).parse() on a PDF that opens
parse_pdf_slow(words, num_pages) ==
    LET layout == _detect_header_layout(words, num_pages)
        all_rows == AllRows(words, 0, num_pages, layout.header_bottom_y)
        txns == _process_transaction_rows(all_rows, layout.column_map)
    IN [transactions |-> txns,
        validation |-> _extract_footer_validation(words, num_pages, txns)]

----------------------------------------------------------------------------
(* backend/services/parsers.py : parse_transactions_from_text              *)
(* (backend/main.py holds a copy of the same function)                     *)

\* parsers.py: tolerance of the balance equations, in currency units.
BalanceTolerance == 1
\* parsers.py: longest narration taken from a dated line.
NarrationCap == 100
\* parsers.py: longest piece a continuation line adds.
ContinuationPiece == 50
\* parsers.py: longest narration after continuation lines.
ContinuationCap == 150
\* parsers.py: a stripped line shorter than this is skipped.
MinLineLen == 5
\* parsers.py: a narration shorter than this becomes "Transaction".
MinNarrationLen == 3

\* A line of the text, after line.strip().  chars: its length.  date: <<>>,
\* or <<[day, month, year]>> when date_pattern matches at its start (the
\* numbers as written).  amounts: the amount_pattern matches of the rest of
\* the line, in cents, in order.  rest: the rest of the line with the
\* amounts and the punctuation taken out and the blanks collapsed (for a
\* line without a date: the whole line so cleaned).  dr, cr: the counts the
\* footer patterns find in the line, in order.
TextLine(chars, date, rest, amounts, dr, cr) ==
    [chars |-> chars, date |-> date, rest |-> rest, amounts |-> amounts,
     dr |-> dr, cr |-> cr]

\* s[:n]
Prefix(s, n) == IF Len(s) <= n THEN s ELSE SubSeq(s, 1, n)
\* s.endswith(kw)
EndsWith(s, kw) == Len(s) >= Len(kw) /\ SubSeq(s, Len(s) - Len(kw) + 1, Len(s)) = kw

TextHeaderKeywords ==
    {"hdfc bank", "statement of account", "page no", "account branch",
     "address", "city", "state", "phone", "email", "cust id",
     "account no", "account status", "branch code", "nomination",
     "joint holders", "od limit", "currency", "micr", "ifsc",
     "we understand your world", "from :", "to :", "registered",
     "narration", "chq./ref.no", "value dt", "withdrawal amt",
     "deposit amt", "closing balance", "opening balance", "product code"}
ContinuationNoise == {"page", "hdfc", "statement", "closing balance"}

\* if not line or len(line) < 5, or a header keyword in line.lower()
LineSkipped(line) ==
    \/ line.chars < MinLineLen
    \/ \E kw \in TextHeaderKeywords : Contains(Lower(line.rest), kw)

\* Every 2-digit year taken for 20YY.
TextYearThisCentury(year) == IF year < 100 THEN 2000 + year ELSE year
\* 2-digit years: < 50 is 20YY, else 19YY
TextYear(year) ==
    IF year < 100 THEN (IF year < 50 THEN 2000 + year ELSE 1900 + year) ELSE year
TextDateToIso(d) == [year |-> TextYear(d.year), month |-> d.month, day |-> d.day]

\* amounts = [a for a in amounts if float(a) >= 0.01]
KeptAmounts(amounts) == SelectSeq(amounts, LAMBDA a : a >= 1)

\* the narration of a dated line
LineNarration(line) ==
    LET narration == Prefix(line.rest, NarrationCap)
    IN IF Len(narration) < MinNarrationLen THEN "Transaction" ELSE narration

\* current_transaction as a dated line opens it
OpenedTransaction(line) ==
    LET amounts == KeptAmounts(line.amounts)
        narration == LineNarration(line)
    IN [date |-> TextDateToIso(line.date[1]),
        merchantRaw |-> narration,
        amount |-> IF Len(amounts) >= 1 THEN amounts[1] ELSE 0,
        raw_amounts |-> amounts,
        transactionType |-> "unknown",
        paymentMethod |-> IF Contains(Lower(narration), "upi") THEN "UPI" ELSE "Other",
        closingBalance |-> IF Len(amounts) >= 2 THEN amounts[Len(amounts)] ELSE 0,
        confidenceScore |-> 85,
        description |-> "None"]

\* current_transaction after a continuation line
Continued(txn, line) ==
    IF \E kw \in ContinuationNoise : Contains(Lower(line.rest), kw) THEN txn
    ELSE IF Len(line.rest) > 2
    THEN [txn EXCEPT !.merchantRaw =
             Prefix(@ \o " " \o Prefix(line.rest, ContinuationPiece), ContinuationCap)]
    ELSE txn

\* The loop over the lines; current_transaction is <<>> for None.
RECURSIVE ReadLines(_, _, _)
ReadLines(lines, txns, current_transaction) ==
    IF lines = <<>> THEN txns \o current_transaction
    ELSE LET line == Head(lines)
         IN IF LineSkipped(line)
            THEN ReadLines(Tail(lines), txns, current_transaction)
            ELSE IF line.date # <<>>
            THEN ReadLines(Tail(lines), txns \o current_transaction,
                           <<OpenedTransaction(line)>>)
            ELSE IF current_transaction # <<>>
            THEN ReadLines(Tail(lines), txns,
                           <<Continued(current_transaction[1], line)>>)
            ELSE ReadLines(Tail(lines), txns, current_transaction)

\* The characters of f"{year}-{month:02d}-{day:02d}" as numbers that keep
\* their order: a digit is its value, '-' is -1 (it sorts below the digits).
RECURSIVE DigitsOf(_)
DigitsOf(n) == IF n < 10 THEN <<n>> ELSE Append(DigitsOf(n \div 10), n % 10)
TwoDigits(n) == IF n < 10 THEN <<0, n>> ELSE DigitsOf(n)
IsoChars(d) == DigitsOf(d.year) \o <<-1>> \o TwoDigits(d.month) \o <<-1>> \o TwoDigits(d.day)

\* a < b for two strings given by their characters
CharsBefore(a, b) ==
    \E i \in 1..Len(b) :
        /\ \A j \in 1..(i - 1) : j <= Len(a) /\ a[j] = b[j]
        /\ (i > Len(a) \/ (i <= Len(a) /\ a[i] < b[i]))
        /\ i <= Len(a) + 1

\* sort key x["date"]
DateStringBefore(a, b) == CharsBefore(IsoChars(a.date), IsoChars(b.date))

\* The equations tried credit first.
RECURSIVE FirstMatchCreditFirst(_, _, _)
FirstMatchCreditFirst(amts, prev_bal, curr_bal) ==
    IF amts = <<>> THEN <<>>
    ELSE LET amt == Head(amts)
         IN IF Abs(prev_bal + amt - curr_bal) < BalanceTolerance * 100
            THEN <<[amount |-> amt, transactionType |-> "credit"]>>
            ELSE IF Abs(prev_bal - amt - curr_bal) < BalanceTolerance * 100
            THEN <<[amount |-> amt, transactionType |-> "debit"]>>
            ELSE FirstMatchCreditFirst(Tail(amts), prev_bal, curr_bal)
\* The first amount of amts that closes the balance equation, as <<[amount,
\* transactionType]>>; <<>> when none does.
RECURSIVE FirstMatch(_, _, _)
FirstMatch(amts, prev_bal, curr_bal) ==
    IF amts = <<>> THEN <<>>
    ELSE LET amt == Head(amts)
         IN IF Abs(prev_bal - amt - curr_bal) < BalanceTolerance * 100
            THEN <<[amount |-> amt, transactionType |-> "debit"]>>
            ELSE IF Abs(prev_bal + amt - curr_bal) < BalanceTolerance * 100
            THEN <<[amount |-> amt, transactionType |-> "credit"]>>
            ELSE FirstMatch(Tail(amts), prev_bal, curr_bal)

\* The keyword heuristics of the transactions after the first.
LaterHeuristic(narration_lower) ==
    IF \/ Contains(narration_lower, " cr ")
       \/ EndsWith(narration_lower, " cr")
       \/ Contains(narration_lower, "credit")
    THEN "credit"
    ELSE IF \/ Contains(narration_lower, " dr ")
            \/ EndsWith(narration_lower, " dr")
            \/ Contains(narration_lower, "debit")
    THEN "debit"
    ELSE IF \E x \in {"deposit", "imps", "neft cr", "upi cr"} : Contains(narration_lower, x)
    THEN "credit"
    ELSE "debit"

\* The keyword heuristics of the first (or the only) transaction.
FirstHeuristic(narration_lower) ==
    IF \E x \in {"deposit", "imps", "neft cr", "upi cr", "credit"} :
          Contains(narration_lower, x)
    THEN "credit"
    ELSE "debit"

\* transactions[i] after the loop body ran for i > 1 (1-based)
ResolvedLater(txns, i) ==
    LET raw_amts == txns[i].raw_amounts
        m == FirstMatch(SubSeq(raw_amts, 1, Len(raw_amts) - 1),
                        txns[i - 1].closingBalance, txns[i].closingBalance)
    IN IF m # <<>>
       THEN [txns[i] EXCEPT !.amount = m[1].amount,
                            !.transactionType = m[1].transactionType]
       ELSE [txns[i] EXCEPT !.transactionType =
                                LaterHeuristic(Lower(txns[i].merchantRaw))]

\* t0 after its post-processing
ResolvedFirst(t0) ==
    LET typed == IF t0.transactionType = "unknown"
                 THEN [t0 EXCEPT !.transactionType =
                                    FirstHeuristic(Lower(t0.merchantRaw))]
                 ELSE t0
    IN IF typed.amount = 0 /\ Len(typed.raw_amounts) >= 2
       THEN [typed EXCEPT !.amount = typed.raw_amounts[1]]
       ELSE typed

\* the only transaction of a list of one
ResolvedOnly(t0) ==
    LET typed == [t0 EXCEPT !.transactionType = FirstHeuristic(Lower(t0.merchantRaw))]
    IN IF typed.amount = 0 /\ Len(typed.raw_amounts) >= 2
       THEN [typed EXCEPT !.amount = typed.raw_amounts[1]]
       ELSE typed

\* The post-processing without its branch for a list of one.
ResolveTypesOfSeveral(txns) ==
    IF Len(txns) > 1
    THEN [i \in 1..Len(txns) |->
            IF i = 1 THEN ResolvedFirst(txns[1]) ELSE ResolvedLater(txns, i)]
    ELSE txns
\* "Post-process to determine transaction types"
ResolveTypes(txns) ==
    IF Len(txns) > 1
    THEN [i \in 1..Len(txns) |->
            IF i = 1 THEN ResolvedFirst(txns[1]) ELSE ResolvedLater(txns, i)]
    ELSE IF Len(txns) = 1 THEN <<ResolvedOnly(txns[1])>>
    ELSE txns

\* del t["raw_amounts"]
WithoutRawAmounts(t) ==
    [date |-> t.date, merchantRaw |-> t.merchantRaw, amount |-> t.amount,
     transactionType |-> t.transactionType, paymentMethod |-> t.paymentMethod,
     closingBalance |-> t.closingBalance, confidenceScore |-> t.confidenceScore,
     description |-> t.description]

\* re.findall of a footer pattern over the whole text: the counts, in order
RECURSIVE TextFooterCounts(_, _)
TextFooterCounts(lines, which) ==
    IF lines = <<>> THEN <<>>
    ELSE Head(lines)[which] \o TextFooterCounts(Tail(lines), which)

TextValidation(lines) ==
    LET dr_count_matches == TextFooterCounts(lines, "dr")
        cr_count_matches == TextFooterCounts(lines, "cr")
    IN [expectedDrCount |-> IF dr_count_matches # <<>>
                            THEN dr_count_matches[Len(dr_count_matches)] ELSE 0,
        expectedCrCount |-> IF cr_count_matches # <<>>
                            THEN cr_count_matches[Len(cr_count_matches)] ELSE 0,
        foundFooter |-> dr_count_matches # <<>> \/ cr_count_matches # <<>>]

parse_transactions_from_text(text) ==
    LET parsed == ReadLines(text.lines, <<>>, <<>>)
        sorted == SortedBy(parsed, DateStringBefore)
        typed == ResolveTypes(sorted)
    IN [transactions |-> [i \in 1..Len(typed) |-> WithoutRawAmounts(typed[i])],
        validation |-> TextValidation(text.lines)]

----------------------------------------------------------------------------
(* The uploads                                                             *)

\* A text as extract_text_simple or the OCR converter returns it: its
\* lines, and the length of text.strip() (the lines, the newlines between
\* them, and pad characters of lines too short to be read).
RECURSIVE LineChars(_)
LineChars(lines) ==
    IF lines = <<>> THEN 0
    ELSE lines[1].chars + (IF Len(lines) > 1 THEN 1 ELSE 0) + LineChars(Tail(lines))
Text(lines, pad) == [lines |-> lines, chars |-> LineChars(lines) + pad]
\* a fixed string as the extracted text
Marker(str) == [lines |-> <<>>, chars |-> Len(str)]

\* The kinds of statement row: a credit, a debit, a repeated balance (no
\* movement), and a credit whose row carries no date.
RowKinds == {"credit", "debit", "repeat", "undated"}
\* Rows printing an amount in both columns: the deposit larger ("both"),
\* the withdrawal larger ("bothdr"), the two equal ("botheq").
BothKinds == {"both", "bothdr", "botheq"}
RowWithdrawal(kind) ==
    CASE kind = "debit" -> 2000
      [] kind = "both" -> 30000
      [] kind = "bothdr" -> 90000
      [] kind = "botheq" -> 30000
      [] OTHER -> 0
RowDeposit(kind) ==
    CASE kind \in {"credit", "undated"} -> 5000
      [] kind = "both" -> 90000
      [] kind = "bothdr" -> 30000
      [] kind = "botheq" -> 30000
      [] OTHER -> 0
RowDelta(kind) == RowDeposit(kind) - RowWithdrawal(kind)
RowDated(kind) == kind # "undated"

\* The balance printed on row i of a statement opening at 100.00.
RECURSIVE BalanceAt(_, _)
BalanceAt(kinds, i) == IF i = 0 THEN 10000 ELSE BalanceAt(kinds, i - 1) + RowDelta(kinds[i])

\* A statement layout: the columns Date, Narration, Withdrawal, Deposit and
\* Balance at x0 = 30, 100, 300, 400, 500; rows 20 units apart from top 120
\* on each page; the header line at top 60 of the first page.
\* o.break: rows on the first page.  o.desc: newest row first.  o.dup: the
\* balance is echoed by a second token of the same row.  o.sep, o.mon: how
\* the dates are written.  o.header: whether the header line is printed.
\* o.footer: <<>>, or <<d, c>> for a footer line declaring d debits and c
\* credits under the last row.
RowPage(i, o) == IF i <= o.break THEN 0 ELSE 1
RowTop(i, o) == 100 + 20 * (IF i <= o.break THEN i ELSE i - o.break)
RowWords(kinds, i, o) ==
    LET k == kinds[i]
        p == RowPage(i, o)
        top == RowTop(i, o)
        day == IF o.desc THEN Len(kinds) + 1 - i ELSE i
        bal == BalanceAt(kinds, i)
    IN (IF RowDated(k)
        THEN <<Word(DateText(day, 1, 23, 2, o.sep, o.mon), 30, 80, top, p)>> ELSE <<>>)
       \o <<Word(WordText("UPI"), 100, 250, top, p)>>
       \o (IF RowWithdrawal(k) > 0
           THEN <<Word(NumText(RowWithdrawal(k)), 300, 350, top, p)>> ELSE <<>>)
       \o (IF RowDeposit(k) > 0
           THEN <<Word(NumText(RowDeposit(k)), 400, 450, top, p)>> ELSE <<>>)
       \o <<Word(NumText(bal), 500, 560, top, p)>>
       \o (IF o.dup THEN <<Word(NumText(bal), 510, 570, top + 2, p)>> ELSE <<>>)

HeaderWords ==
    <<Word(WordText("Date"), 30, 80, 60, 0),
      Word(WordText("Narration"), 100, 250, 60, 0),
      Word(WordText("Withdrawal Amt."), 300, 350, 60, 0),
      Word(WordText("Deposit Amt."), 400, 450, 60, 0),
      Word(WordText("Closing Balance"), 500, 560, 60, 0)>>

FooterWords(n, o) ==
    IF o.footer = <<>> THEN <<>>
    ELSE <<Word(DrFooterText(o.footer[1]), 30, 200, RowTop(n + 1, o), RowPage(n, o)),
           Word(CrFooterText(o.footer[2]), 250, 420, RowTop(n + 1, o), RowPage(n, o))>>

RECURSIVE RowsWords(_, _, _)
RowsWords(kinds, i, o) ==
    IF i > Len(kinds) THEN <<>> ELSE RowWords(kinds, i, o) \o RowsWords(kinds, i + 1, o)

StatementWords(kinds, o) ==
    (IF o.header THEN HeaderWords ELSE <<>>)
    \o RowsWords(kinds, 1, o) \o FooterWords(Len(kinds), o)

NoText == Text(<<>>, 0)
NoOcr == [mode |-> "unavailable", text |-> NoText]

\* A PDF that opens, with the words of a statement.
Statement(kinds, o) ==
    [ext |-> ".pdf", opens |-> TRUE,
     num_pages |-> IF o.break < Len(kinds) THEN 2 ELSE 1,
     words |-> StatementWords(kinds, o),
     text |-> NoText, ocr |-> NoOcr]

\* A file without words: a scanned or unreadable PDF, an image, a text file.
Wordless(ext, opens, text, ocr) ==
    [ext |-> ext, opens |-> opens, num_pages |-> IF opens THEN 1 ELSE 0,
     words |-> <<>>, text |-> text, ocr |-> ocr]

\* The row sequences of 1..MaxRows rows
RECURSIVE SeqsUpTo(_, _)
SeqsUpTo(S, n) ==
    IF n = 0 THEN {<<>>}
    ELSE LET shorter == SeqsUpTo(S, n - 1)
         IN shorter \cup {Append(q, x) : q \in {q \in shorter : Len(q) = n - 1}, x \in S}

PlainLayout ==
    [break |-> MaxRows + 1, desc |-> FALSE, dup |-> FALSE, sep |-> "/", mon |-> FALSE,
     header |-> TRUE, footer |-> <<>>]

\* Statements of every row sequence, with or without echoed balances, and
\* of every sequence of dated movements printed newest first.
RowStatements ==
    {Statement(kinds, [PlainLayout EXCEPT !.dup = dup]) :
        kinds \in SeqsUpTo(RowKinds, MaxRows) \ {<<>>}, dup \in BOOLEAN}
    \cup {Statement(kinds, [PlainLayout EXCEPT !.desc = TRUE, !.dup = dup]) :
        kinds \in SeqsUpTo({"credit", "debit"}, MaxRows) \ {<<>>}, dup \in BOOLEAN}

\* Statements of a few rows in every layout: footer counts, date writing,
\* page break, echoed balances, header line.
Footers == {<<>>} \cup {<<d, c>> : d \in 0..MaxFooterCount, c \in 0..MaxFooterCount}
LayoutStatements ==
    {Statement(kinds, [PlainLayout EXCEPT !.break = brk, !.dup = dup, !.sep = sep,
                                          !.header = header, !.footer = footer]) :
        kinds \in {<<"credit", "debit", "credit">>, <<"debit", "credit">>},
        brk \in {1, MaxRows + 1}, dup \in BOOLEAN, sep \in {"/", "-"},
        header \in BOOLEAN, footer \in Footers}

\* Statements whose dates are written with the month's name (1-Jan-23).
MonthNameStatements ==
    {Statement(kinds, [PlainLayout EXCEPT !.dup = dup, !.sep = sep, !.mon = TRUE]) :
        kinds \in {<<"credit", "debit", "credit">>, <<"debit", "credit">>},
        dup \in BOOLEAN, sep \in {"/", "-"}}

\* Two-page statements whose first page ends with a count line of its own
\* (1 debit, 0 credits), the last page with the document's or with none.
FirstPageFooter ==
    <<Word(DrFooterText(1), 30, 200, 200, 0), Word(CrFooterText(0), 250, 420, 200, 0)>>
SubtotalStatements ==
    {[Statement(<<"debit", "credit">>, [PlainLayout EXCEPT !.break = 1, !.footer = footer])
         EXCEPT !.words = @ \o FirstPageFooter] :
        footer \in {<<>>, <<1, 1>>}}

\* Pages of two columns of amounts, at x 300 and x 500.  A column has n
\* rows; each row prints its amount 1 + more times, the repeats step units
\* of top apart.
ColumnWords(x0, c) ==
    [k \in 1..(c.n * (c.more + 1)) |->
        LET i == (k - 1) \div (c.more + 1) + 1
            j == (k - 1) % (c.more + 1)
        IN Word(NumText(10000 + 1000 * i), x0, x0 + 50, 100 + 20 * i + c.step * j, 0)]
ColumnKinds ==
    {[n |-> 2, more |-> 2, step |-> 3], [n |-> 2, more |-> 2, step |-> 1],
     [n |-> 3, more |-> 1, step |-> 3], [n |-> 5, more |-> 0, step |-> 0],
     [n |-> 4, more |-> 0, step |-> 0]}
ColumnPages ==
    {[ext |-> ".pdf", opens |-> TRUE, num_pages |-> 1,
      words |-> ColumnWords(300, a) \o ColumnWords(500, b),
      text |-> NoText, ocr |-> NoOcr] : a \in ColumnKinds, b \in ColumnKinds}

\* Pages of one or two loose words: amounts, amounts of 200,000,000.00 with
\* either sign, an amount followed by Cr, a reference number, a name.
LooseTexts ==
    {NumText(15000), NumText(-15000), [NumText(15000) EXCEPT !.suffix = "Cr"],
     BigText(200000000), BigText(-200000000), RefText(527413), WordText("UPI")}
LoosePages ==
    {[ext |-> ".pdf", opens |-> TRUE, num_pages |-> 1,
      words |-> [i \in 1..Len(texts) |-> Word(texts[i], 100 * i, 100 * i + 60, 100, 0)],
      text |-> NoText, ocr |-> NoOcr] : texts \in SeqsUpTo(LooseTexts, 2) \ {<<>>}}

\* Statements with rows that print an amount in both columns.
BothStatements ==
    {Statement(kinds, PlainLayout) :
        kinds \in SeqsUpTo(BothKinds \cup {"credit"}, 2) \ {<<>>}}

\* The lines of the extracted texts.
TextLineKinds ==
    {TextLine(36, <<[day |-> 1, month |-> 2, year |-> 23]>>, "NEFT CR SALARY",
              <<5000, 15000>>, <<>>, <<>>),
     TextLine(30, <<[day |-> 1, month |-> 2, year |-> 23]>>, "UPI SHOP",
              <<3000, 12000>>, <<>>, <<>>),
     TextLine(22, <<[day |-> 31, month |-> 1, year |-> 23]>>, "ATM WDL",
              <<2000>>, <<>>, <<>>),
     TextLine(37, <<>>, "Total Dr Count 1 Total Cr Count 1", <<>>, <<1>>, <<1>>),
     TextLine(18, <<>>, "Total Dr Count 2", <<>>, <<2>>, <<>>)}

\* Further dated lines: a salary credit with its closing balance; a NEFT
\* credit with one amount, whose narration goes on after "CR" with a hyphen
\* and names a debit card; a card payment whose payee has "city" in its
\* name; a cheque of 15/8/99.
KeywordLineKinds ==
    {TextLine(36, <<[day |-> 1, month |-> 2, year |-> 23]>>, "NEFT CR SALARY",
              <<5000, 15000>>, <<>>, <<>>),
     TextLine(49, <<[day |-> 2, month |-> 2, year |-> 23]>>,
              "NEFT CR-AXIS0001-DEBIT CARD REFUND", <<4000>>, <<>>, <<>>),
     TextLine(45, <<[day |-> 3, month |-> 2, year |-> 23]>>,
              "POS ELECTRICITY BOARD", <<1500, 9500>>, <<>>, <<>>),
     TextLine(30, <<[day |-> 15, month |-> 8, year |-> 99]>>, "CHQ PAID 1234",
              <<2000>>, <<>>, <<>>)}
KeywordTexts == {Text(lines, 0) : lines \in SeqsUpTo(KeywordLineKinds, 2)}

\* Lines for the balance equations, after a deposit leaving 100.00: two
\* charges of which only the second (or only the first) closes the debit
\* equation on 80.00; an amount of 0.50 with the balance unchanged, which
\* closes both equations; a transfer closing the credit equation on
\* 130.00; a single amount with " CR " in the narration.
ChainLineKinds ==
    {TextLine(32, <<[day |-> 1, month |-> 3, year |-> 23]>>, "CASH DEP",
              <<1000, 10000>>, <<>>, <<>>),
     TextLine(40, <<[day |-> 2, month |-> 3, year |-> 23]>>, "CHARGES GST",
              <<1800, 2000, 8000>>, <<>>, <<>>),
     TextLine(35, <<[day |-> 2, month |-> 3, year |-> 23]>>, "INT PD",
              <<2000, 1800, 8000>>, <<>>, <<>>),
     TextLine(33, <<[day |-> 3, month |-> 3, year |-> 23]>>, "ROUNDING",
              <<50, 10000>>, <<>>, <<>>),
     TextLine(34, <<[day |-> 4, month |-> 3, year |-> 23]>>, "TRANSFER",
              <<3000, 13000>>, <<>>, <<>>),
     TextLine(26, <<[day |-> 5, month |-> 3, year |-> 23]>>, "TRF CR REF",
              <<4000>>, <<>>, <<>>)}
ChainTexts == {Text(lines, 0) : lines \in SeqsUpTo(ChainLineKinds, 2)}

\* The texts of up to MaxLines lines, and those the handler's length test
\* tells apart: of at most one line, with or without further characters
\* that belong to no line the parser reads.
Texts == {Text(lines, 0) : lines \in SeqsUpTo(TextLineKinds, MaxLines)}
OcrTexts == {Text(lines, 0) : lines \in SeqsUpTo(TextLineKinds, 1)}
PdfTexts == {Text(lines, pad) : lines \in SeqsUpTo(TextLineKinds, 1), pad \in {0, 101}}
            \cup {Text(<<>>, 100)}
OcrModes ==
    {NoOcr, [mode |-> "raises", text |-> NoText]}
    \cup {[mode |-> "converts", text |-> t] : t \in OcrTexts}

\* Whether process_document hands the text to the regex parser as it is.
TextMinChars == 100
IsLongText(text) == text.chars > TextMinChars

\* Files whose words yield nothing: PDFs (readable or not), the OCR
\* converter mattering only to the texts too short to be parsed; images,
\* which only the converter reads; text files.
TextFiles ==
    {Wordless(".pdf", opens, t, NoOcr) :
        opens \in BOOLEAN, t \in {t \in PdfTexts : IsLongText(t)}}
    \cup {Wordless(".pdf", opens, t, ocr) :
        opens \in BOOLEAN, t \in {t \in PdfTexts : ~IsLongText(t)}, ocr \in OcrModes}
    \cup {Wordless(".png", FALSE, NoText, ocr) : ocr \in OcrModes}
    \cup {Wordless(".csv", FALSE, t, NoOcr) : t \in Texts \cup KeywordTexts \cup ChainTexts}

\* A statement of four rows whose third row, between two dated movements,
\* carries no date; every balance is echoed.
GapStatements ==
    {Statement(<<"credit", "debit", "undated", "credit">>, [PlainLayout EXCEPT !.dup = TRUE])}

Uploads ==
    RowStatements \cup LayoutStatements \cup MonthNameStatements \cup BothStatements
    \cup SubtotalStatements \cup GapStatements \cup ColumnPages \cup LoosePages
    \cup TextFiles

----------------------------------------------------------------------------
(* backend/main.py : process_document, and parse_pdf_fast step by step     *)
(* (backend/routers/processing.py holds the same handler)                  *)

\* d.get(key, default)
Get(d, key, default) == IF key \in DOMAIN d THEN d[key] ELSE default

NoFile == Wordless("", FALSE, NoText, NoOcr)
NoResult == [transactions |-> None, validation |-> [error |-> ""]]
NoResponse == [status |-> 0]
DefaultValidation ==
    [expectedDrCount |-> 0, expectedCrCount |-> 0, foundFooter |-> FALSE]

Init ==
    /\ pc = "idle"
    /\ file = NoFile
    /\ all_words = <<>>
    /\ numeric_tokens = <<>>
    /\ balance_spine = <<>>
    /\ fast_txns = <<>>
    /\ fast_result = NoResult
    /\ transactions = List(<<>>)
    /\ validation = DefaultValidation
    /\ processing_method = "fallback"
    /\ extracted_text = Marker("")
    /\ response = NoResponse
    /\ invoked = <<>>

fastVars == <<all_words, numeric_tokens, balance_spine, fast_txns, fast_result>>
localVars == <<transactions, validation, processing_method, extracted_text>>

\* The request arrives: the locals are initialised and the branch on the
\* file's extension is taken.
Upload ==
    /\ pc = "idle"
    /\ \E f \in Uploads :
        /\ file' = f
        /\ pc' = IF f.ext = ".pdf" THEN "fast"
                 ELSE IF f.ext \in {".png", ".jpg", ".jpeg"} THEN "image"
                 ELSE "text_file"
    /\ UNCHANGED <<fastVars, localVars, response, invoked>>

\* parse_pdf_fast, lines 12-19: the words of every page; a PDF that cannot
\* be opened raises, which parse_pdf_fast turns into (None, error).
FastOpen ==
    /\ pc = "fast"
    /\ invoked' = Append(invoked, "parse_pdf_fast")
    /\ IF file.opens
       THEN /\ all_words' = file.words
            /\ pc' = "fast_filter"
            /\ UNCHANGED fast_result
       ELSE /\ fast_result' = [transactions |-> None,
                               validation |-> [error |-> "cannot open the PDF"]]
            /\ pc' = "fast_returned"
            /\ UNCHANGED all_words
    /\ UNCHANGED <<file, numeric_tokens, balance_spine, fast_txns, localVars, response>>

\* parse_pdf_fast, line 22
FastFilter ==
    /\ pc = "fast_filter"
    /\ numeric_tokens' = _filter_numeric_tokens(all_words)
    /\ all_words' = WordsAfterFilter(all_words)
    /\ pc' = "fast_spine"
    /\ UNCHANGED <<file, balance_spine, fast_txns, fast_result, localVars, response, invoked>>

\* parse_pdf_fast, lines 26-30
FastSpine ==
    /\ pc = "fast_spine"
    /\ LET spine == _find_best_balance_spine(numeric_tokens)
       IN /\ balance_spine' = spine
          /\ IF spine = <<>> \/ Len(spine) < MinSpine
             THEN /\ fast_result' = [transactions |-> None,
                                     validation |-> [error |-> "No valid balance spine found"]]
                  /\ pc' = "fast_returned"
             ELSE /\ pc' = "fast_infer"
                  /\ UNCHANGED fast_result
    /\ UNCHANGED <<file, all_words, numeric_tokens, fast_txns, localVars, response, invoked>>

\* parse_pdf_fast, line 35
FastInfer ==
    /\ pc = "fast_infer"
    /\ fast_txns' = _infer_from_deltas(balance_spine, all_words)
    /\ balance_spine' = SortedSpine(balance_spine)
    /\ pc' = "fast_validate"
    /\ UNCHANGED <<file, all_words, numeric_tokens, fast_result, localVars, response, invoked>>

\* parse_pdf_fast, lines 39-46
FastValidate ==
    /\ pc = "fast_validate"
    /\ LET v == _validate_mathematically(fast_txns)
       IN fast_result' = [transactions |-> IF v.is_valid THEN List(fast_txns) ELSE None,
                          validation |-> v.stats]
    /\ pc' = "fast_returned"
    /\ UNCHANGED <<file, all_words, numeric_tokens, balance_spine, fast_txns, localVars,
                   response, invoked>>

\* process_document, lines 505-514
AfterFast ==
    /\ pc = "fast_returned"
    /\ transactions' = fast_result.transactions
    /\ validation' = fast_result.validation
    /\ IF Truthy(fast_result.transactions)
       THEN /\ processing_method' = "fast_spine"
            /\ extracted_text' = Marker("(Math-Verified Balance Spine Extraction)")
            /\ pc' = "respond"
       ELSE /\ pc' = "slow"
            /\ UNCHANGED <<processing_method, extracted_text>>
    /\ UNCHANGED <<file, fastVars, response, invoked>>

\* The label of the fast path written where the layout path's belongs.
StaleMethod == "fast_spine"
\* processing_method once parse_pdf_slow returned
VisualMethod == "pdfplumber_visual"

\* process_document, lines 517-528: parse_pdf_slow raises on a PDF that
\* cannot be opened, before anything is assigned.
SlowPath ==
    /\ pc = "slow"
    /\ invoked' = Append(invoked, "parse_pdf_slow")
    /\ IF file.opens
       THEN LET r == parse_pdf_slow(file.words, file.num_pages)
            IN /\ transactions' = List(r.transactions)
               /\ validation' = r.validation
               /\ processing_method' = VisualMethod
               /\ extracted_text' = Marker("(Visual Extraction Performed)")
               /\ pc' = IF Truthy(List(r.transactions)) THEN "respond" ELSE "text"
       ELSE /\ pc' = "text"
            /\ UNCHANGED localVars
    /\ UNCHANGED <<file, fastVars, response>>

\* The regex parser called with processing_method left as it was.
ParseTextKeepingMethod(text, method) ==
    LET r == parse_transactions_from_text(text)
    IN /\ extracted_text' = text
       /\ UNCHANGED processing_method
       /\ transactions' = List(r.transactions)
       /\ validation' = r.validation
       /\ invoked' = Append(invoked, "parse_transactions_from_text")

\* The regex parser called on a text, its result assigned to the locals.
ParseText(text, method) ==
    LET r == parse_transactions_from_text(text)
    IN /\ extracted_text' = text
       /\ processing_method' = method
       /\ transactions' = List(r.transactions)
       /\ validation' = r.validation
       /\ invoked' = Append(invoked, "parse_transactions_from_text")

\* process_document, lines 531-545
TextPath ==
    /\ pc = "text"
    /\ IF IsLongText(file.text)
       THEN ParseText(file.text, "pypdf_fallback")
       ELSE IF file.ocr.mode = "converts"
       THEN ParseText(file.ocr.text, "docling")
       ELSE IF file.ocr.mode = "raises"
       THEN /\ extracted_text' = file.text
            /\ UNCHANGED <<transactions, validation, processing_method, invoked>>
       ELSE /\ extracted_text' = file.text
            /\ processing_method' = "failed"
            /\ UNCHANGED <<transactions, validation, invoked>>
    /\ pc' = "respond"
    /\ UNCHANGED <<file, fastVars, response>>

\* process_document, lines 547-559
ImagePath ==
    /\ pc = "image"
    /\ IF file.ocr.mode = "converts"
       THEN ParseText(file.ocr.text, "docling")
       ELSE /\ extracted_text' = Marker("")
            /\ UNCHANGED <<transactions, validation, processing_method, invoked>>
    /\ pc' = "respond"
    /\ UNCHANGED <<file, fastVars, response>>

\* process_document, lines 560-564
TextFilePath ==
    /\ pc = "text_file"
    /\ ParseText(file.text, "text")
    /\ pc' = "respond"
    /\ UNCHANGED <<file, fastVars, response>>

\* The credit counts left out of the comparison.
MatchesDebitsOnly(found_footer, expected_dr, actual_dr, expected_cr, actual_cr) ==
    IF found_footer THEN <<expected_dr = actual_dr>> ELSE <<>>
\* "matches": ... if found_footer else None ; <<>> stands for None
Matches(found_footer, expected_dr, actual_dr, expected_cr, actual_cr) ==
    IF found_footer
    THEN <<expected_dr = actual_dr /\ expected_cr = actual_cr>>
    ELSE <<>>

\* process_document, lines 571-600: iterating transactions raises when it
\* is None, and the handler answers HTTP 500.
Respond ==
    /\ pc = "respond"
    /\ IF transactions.none
       THEN /\ response' = [status |-> 500,
                            detail |-> "Processing error: 'NoneType' object is not iterable"]
            /\ pc' = "failed"
       ELSE LET txns == transactions.items
                actual_dr == CountType(txns, "debit")
                actual_cr == CountType(txns, "credit")
                expected_dr == Get(validation, "expectedDrCount", 0)
                expected_cr == Get(validation, "expectedCrCount", 0)
                found_footer == Get(validation, "foundFooter", FALSE)
            IN /\ response' =
                    [status |-> 200,
                     success |-> TRUE,
                     processingMethod |-> processing_method,
                     extractedText |-> extracted_text,
                     transactions |-> txns,
                     transactionCount |-> Len(txns),
                     validation |->
                        [expectedDrCount |-> expected_dr,
                         expectedCrCount |-> expected_cr,
                         actualDrCount |-> actual_dr,
                         actualCrCount |-> actual_cr,
                         foundFooter |-> found_footer,
                         matches |-> Matches(found_footer, expected_dr, actual_dr,
                                             expected_cr, actual_cr),
                         method |-> Get(validation, "method", processing_method)]]
               /\ pc' = "done"
    /\ UNCHANGED <<file, fastVars, localVars, invoked>>

Next ==
    \/ Upload
    \/ FastOpen
    \/ FastFilter
    \/ FastSpine
    \/ FastInfer
    \/ FastValidate
    \/ AfterFast
    \/ SlowPath
    \/ TextPath
    \/ ImagePath
    \/ TextFilePath
    \/ Respond

Spec == Init /\ [][Next]_vars

----------------------------------------------------------------------------
(* Properties of the orchestrator                                          *)

IsPdf == file.ext = ".pdf"
Answered == pc = "done"
\* parse_pdf_fast gave None or an empty list (meaningful once it returned)
FastGaveNothing ==
    fast_result.transactions.none \/ fast_result.transactions.items = <<>>
LastInvoked == IF invoked = <<>> THEN "" ELSE invoked[Len(invoked)]
StrategyOrder ==
    <<"parse_pdf_fast", "parse_pdf_slow", "parse_transactions_from_text">>
IsPrefix(a, b) == Len(a) <= Len(b) /\ \A i \in 1..Len(a) : a[i] = b[i]

\* One step of the handler on a PDF, as the fallback rule reads it; the
\* regex parser is attempted, once the layout strategy gave nothing, exactly
\* when attempts_regex holds.
FallbackStep(attempts_regex) ==
    /\ IsPdf => IsPrefix(invoked', StrategyOrder)
    /\ pc = "fast_returned" =>
          /\ pc' = IF FastGaveNothing THEN "slow" ELSE "respond"
          /\ invoked' = invoked
          /\ ~FastGaveNothing => transactions' = fast_result.transactions
    /\ pc = "slow" =>
          /\ invoked' = Append(invoked, "parse_pdf_slow")
          /\ pc' = IF transactions'.none \/ transactions'.items = <<>>
                   THEN "text" ELSE "respond"
    /\ pc = "text" =>
          /\ pc' = "respond"
          /\ IF attempts_regex
             THEN invoked' = Append(invoked, "parse_transactions_from_text")
             ELSE invoked' = invoked
    /\ (pc = "respond" /\ pc' = "done") =>
          /\ invoked' = invoked
          /\ response'.transactions = transactions.items

\* C1 (as the code has it): on a PDF the strategies run in the order
\* parse_pdf_fast, parse_pdf_slow, parse_transactions_from_text.  The layout
\* strategy is attempted iff the balance-spine strategy gave None or an empty
\* list.  The handler reaches its text step iff the layout strategy raised
\* or gave an empty list, and there the regex parser is attempted iff the
\* extracted text is longer than 100 characters or the OCR converter yields a
\* text.  A non-empty list stops the chain and is the list returned, whatever
\* the footer counts say.
C1_FallbackOrder ==
    [][FallbackStep(file.text.chars > TextMinChars \/ file.ocr.mode = "converts")]_vars

\* C1 as stated: the regex parser is attempted whenever the layout strategy
\* raised or returned an empty list.
C1_AsStated == [][FallbackStep(TRUE)]_vars

\* All three strategies ran in order on a PDF and the third one's list is returned.
C1_Witness ==
    /\ Answered /\ IsPdf
    /\ invoked = StrategyOrder
    /\ response.transactions # <<>>

C3_TotalFailureReported ==
    (/\ pc \in {"done", "failed"}
     /\ IsPdf
     /\ invoked = StrategyOrder
     /\ (transactions.none \/ transactions.items = <<>>))
    => (response.status # 200 \/ ~response.success)

----------------------------------------------------------------------------
(* Properties of the balance-spine strategy                                *)

\* _infer_from_deltas has run: fast_txns is what it made of balance_spine.
Inferred == pc \notin {"idle", "fast", "fast_filter", "fast_spine", "fast_infer"} /\ IsPdf
SpineValue(i) == balance_spine[i].text.val
SpinePairs == 2..Len(balance_spine)
SignedAmount(t) == IF t.transactionType = "credit" THEN t.amount ELSE -t.amount

\* The transaction t closes the pair of spine tokens ending at i.
ClosesPair(t, i) ==
    /\ t.transactionType \in {"credit", "debit"}
    /\ t.amount > 0
    /\ SpineValue(i - 1) + SignedAmount(t) = SpineValue(i)
    /\ t.closingBalance = SpineValue(i)

\* C4: every transaction the balance-spine strategy emits closes a pair of
\* consecutive spine tokens (prev + amount = curr for a credit, prev - amount
\* = curr for a debit, closingBalance = curr), and what parse_pdf_fast
\* returns, and the handler answers when it accepts it, is that list unchanged.
C4_ArithmeticClosure ==
    Inferred =>
        /\ \A k \in 1..Len(fast_txns) : \E i \in SpinePairs : ClosesPair(fast_txns[k], i)
        /\ (pc # "fast_validate" /\ ~fast_result.transactions.none)
              => fast_result.transactions.items = fast_txns
        /\ (Answered /\ LastInvoked = "parse_pdf_fast") => response.transactions = fast_txns

\* parse_pdf_fast returned a debit and a credit.
C4_Witness ==
    /\ pc = "fast_returned"
    /\ ~fast_result.transactions.none
    /\ \E k \in 1..Len(fast_txns) : fast_txns[k].transactionType = "debit"
    /\ \E k \in 1..Len(fast_txns) : fast_txns[k].transactionType = "credit"

\* a <= b for two dates
DateLeq(a, b) ==
    \/ a.year < b.year
    \/ (a.year = b.year /\ a.month < b.month)
    \/ (a.year = b.year /\ a.month = b.month /\ a.day <= b.day)
DateSorted(txns) == \A k \in 1..(Len(txns) - 1) : DateLeq(txns[k].date, txns[k + 1].date)

\* C5 as stated: the list a strategy returns, and the list the handler
\* answers, is sorted ascending by date.
C5_SortedByDate ==
    /\ Inferred => DateSorted(fast_txns)
    /\ Answered => DateSorted(response.transactions)

CountOf(txns, type) == Cardinality({k \in 1..Len(txns) : txns[k].transactionType = type})

\* C6: in the response, validation.matches is null when foundFooter is false,
\* and otherwise it is whether expectedDrCount is the number of debits
\* returned and expectedCrCount the number of credits returned.
C6_MatchesFooterCounts ==
    Answered =>
        LET v == response.validation
        IN IF v.foundFooter
           THEN v.matches =
                  <<(v.expectedDrCount = CountOf(response.transactions, "debit")
                     /\ v.expectedCrCount = CountOf(response.transactions, "credit"))>>
           ELSE v.matches = <<>>

\* The footer declares one credit more than was returned, the debits agree:
\* matches is false.
C6_Witness ==
    /\ Answered
    /\ response.validation.foundFooter
    /\ response.validation.expectedDrCount = response.validation.actualDrCount
    /\ response.validation.expectedCrCount = response.validation.actualCrCount + 1
    /\ response.validation.actualCrCount = CountOf(response.transactions, "credit")
    /\ response.validation.matches = <<FALSE>>


RegexMethods == {"pypdf_fallback", "docling", "text"}
Methods == {"fast_balance_spine", "pdfplumber_visual", "failed", "fallback"} \cup RegexMethods

\* C7 (as the code has it): validation.method is one of 'fast_balance_spine',
\* 'pdfplumber_visual', 'pypdf_fallback', 'docling', 'text', 'failed' and
\* 'fallback'; when transactions are returned it names the strategy that
\* produced them: 'fast_balance_spine' for the balance-spine strategy,
\* 'pdfplumber_visual' for the layout strategy, and for the regex parser
\* 'pypdf_fallback' (the text of a PDF), 'docling' (a converted text) or
\* 'text' (a text file).
C7_MethodNamesStrategy ==
    Answered =>
        LET method == response.validation.method
        IN /\ method \in Methods
           /\ response.transactions # <<>> =>
                /\ method = "fast_balance_spine" <=> LastInvoked = "parse_pdf_fast"
                /\ method = "pdfplumber_visual" <=> LastInvoked = "parse_pdf_slow"
                /\ method \in RegexMethods <=> LastInvoked = "parse_transactions_from_text"
                /\ method = "pypdf_fallback" => (IsPdf /\ file.text.chars > TextMinChars)
                /\ method = "docling" => file.ocr.mode = "converts"
                /\ method = "text" => file.ext \notin {".pdf", ".png", ".jpg", ".jpeg"}

\* C7 as stated: validation.method is one of 'fast_balance_spine',
\* 'pdfplumber_visual' and 'text_regex', and is 'text_regex' whenever the
\* regex parser produced the transactions returned.
C7_AsStated ==
    Answered =>
        LET method == response.validation.method
        IN /\ method \in {"fast_balance_spine", "pdfplumber_visual", "text_regex"}
           /\ (response.transactions # <<>> /\ LastInvoked = "parse_transactions_from_text")
                 => method = "text_regex"

\* The regex parser produced the transactions of a PDF.
C7_Witness ==
    /\ Answered /\ IsPdf
    /\ LastInvoked = "parse_transactions_from_text"
    /\ response.transactions # <<>>
    /\ response.validation.method = "pypdf_fallback"

\* The footer counts the document declares: in its words, or in the text
\* handed to the regex parser.
DeclaredCounts(which) ==
    {file.words[i].text[which][1] :
        i \in {i \in 1..Len(file.words) : file.words[i].text[which] # <<>>}}
    \cup {extracted_text.lines[i][which][1] :
        i \in {i \in 1..Len(extracted_text.lines) : extracted_text.lines[i][which] # <<>>}}

\* C8 as stated: whichever strategy's transactions are returned, a footer in
\* the document makes the response carry foundFooter = true, the footer's
\* counts as expected counts, and a non-null matches.
C8_FooterAlwaysChecked ==
    (/\ Answered
     /\ response.transactions # <<>>
     /\ DeclaredCounts("dr") # {}
     /\ DeclaredCounts("cr") # {})
    => /\ response.validation.foundFooter
       /\ response.validation.expectedDrCount \in DeclaredCounts("dr")
       /\ response.validation.expectedCrCount \in DeclaredCounts("cr")
       /\ response.validation.matches # <<>>

\* A date the fast parser reads stands on the row of the spine token, left of it.
RowHasDate(curr) ==
    \E i \in 1..Len(all_words) :
        LET w == all_words[i]
        IN /\ w.text.kind = "date" /\ ~w.text.mon
           /\ w.page = curr.page
           /\ Abs(w.top - curr.top) < DateRowTolerance
           /\ w.x1 < curr.x0
MovingPairs == {i \in SpinePairs : SpineValue(i) # SpineValue(i - 1)}
DatedPairs == {i \in MovingPairs : RowHasDate(balance_spine[i])}
\* the k-th smallest element of a set of numbers
NthOf(S, k) == CHOOSE x \in S : Cardinality({y \in S : y < x}) = k - 1

C10_ZeroDeltaSuppressed ==
    Inferred =>
        /\ \A k \in 1..Len(fast_txns) : fast_txns[k].amount >= 1
        /\ Len(fast_txns) <= Cardinality(MovingPairs)
        /\ (/\ Len(balance_spine) = 3
            /\ <<SpineValue(1), SpineValue(2), SpineValue(3)>> = <<10000, 10000, 15000>>
            /\ \A i \in 1..3 : RowHasDate(balance_spine[i]))
           => /\ Len(fast_txns) = 1
              /\ fast_txns[1].transactionType = "credit"
              /\ fast_txns[1].amount = 5000

\* The spine 100.00, 100.00, 150.00 was read and one credit of 50.00 inferred.
C10_Witness ==
    /\ pc = "fast_validate"
    /\ Len(balance_spine) = 3
    /\ <<SpineValue(1), SpineValue(2), SpineValue(3)>> = <<10000, 10000, 15000>>
    /\ \A i \in 1..3 : RowHasDate(balance_spine[i])
    /\ Len(fast_txns) = 1
    /\ fast_txns[1].amount = 5000

----------------------------------------------------------------------------
(* Properties of the layout strategy                                       *)

\* The layout strategy's transactions are the ones answered.
LayoutAnswered == Answered /\ IsPdf /\ LastInvoked = "parse_pdf_slow"
\* The tops of the dated rows of the uploaded statement, in page order
\* (the statements whose rows all stand on the first page).
DatedRowTops ==
    LET dated == SelectSeq(file.words, LAMBDA w : w.text.kind = "date")
    IN [i \in 1..Len(dated) |-> dated[i].top]
\* The amount printed on the row at top in the column whose words start at x0; 0 when none is.
PrintedAt(top, x0) ==
    LET hits == {i \in 1..Len(file.words) :
                    /\ file.words[i].top = top /\ file.words[i].x0 = x0
                    /\ file.words[i].text.kind = "num"}
    IN IF hits = {} THEN 0 ELSE file.words[CHOOSE i \in hits : TRUE].text.val
\* Every row of the statement is dated, on the first page, under a header
\* line, and one transaction per row was returned.
RowPerTransaction ==
    /\ LayoutAnswered
    /\ file.num_pages = 1
    /\ \A i \in 1..Len(file.words) : file.words[i].text.kind # "footer"
    /\ Len(response.transactions) = Len(DatedRowTops)
    /\ Len(DatedRowTops) = Cardinality({file.words[i].top : i \in 1..Len(file.words)}) - 1

\* C11: in the layout refiner a row printing only a withdrawal is a debit of
\* that amount, a row printing only a deposit is a credit of that amount,
\* and a row printing both takes the larger of the two as amount and the
\* side of the larger as type (withdrawal 300, deposit 900: credit of 900;
\* equal amounts: credit); the type is always debit or credit.
C11_LargerSideWins ==
    RowPerTransaction =>
        \A k \in 1..Len(response.transactions) :
            LET t == response.transactions[k]
                w == PrintedAt(DatedRowTops[k], 300)
                d == PrintedAt(DatedRowTops[k], 400)
            IN /\ t.transactionType \in {"debit", "credit"}
               /\ (w > 0 /\ d = 0) => (t.transactionType = "debit" /\ t.amount = w)
               /\ (d > 0 /\ w = 0) => (t.transactionType = "credit" /\ t.amount = d)
               /\ (w > 0 /\ d > 0 /\ w > d) => (t.transactionType = "debit" /\ t.amount = w)
               /\ (w > 0 /\ d > 0 /\ d >= w) => (t.transactionType = "credit" /\ t.amount = d)

\* A row printing withdrawal 300.00 and deposit 900.00 came back as a credit of 900.00.
C11_Witness ==
    /\ RowPerTransaction
    /\ \E k \in 1..Len(response.transactions) :
          /\ PrintedAt(DatedRowTops[k], 300) = 30000
          /\ PrintedAt(DatedRowTops[k], 400) = 90000
          /\ response.transactions[k].transactionType = "credit"
          /\ response.transactions[k].amount = 90000

----------------------------------------------------------------------------
(* Properties of the regex parser                                          *)

\* The regex parser read the text of an uploaded text file, and its
\* transactions are the ones answered.
TextAnswered == Answered /\ file.ext = ".csv"
\* t was parsed from a line with exactly one amount: that amount is its
\* amount and no closing balance was read, so no balance equation was tried.
SingleAmount(t) == t.amount > 0 /\ t.closingBalance = 0

\* C12: in the regex parser every transaction parsed from a line with a
\* single amount whose narration contains 'NEFT CR' is a credit, whether it
\* is the first, the only or a later transaction of the list.
C12_NeftCrIsCredit ==
    TextAnswered =>
        \A k \in 1..Len(response.transactions) :
            LET t == response.transactions[k]
            IN (SingleAmount(t) /\ Contains(t.merchantRaw, "NEFT CR"))
                  => t.transactionType = "credit"

----------------------------------------------------------------------------
(* Properties of all three strategies                                      *)

\* The transactions a strategy has returned so far: those of parse_pdf_fast,
\* those the handler holds, and those it answered.
Returned ==
    {fast_result.transactions.items[i] : i \in 1..Len(fast_result.transactions.items)}
    \cup {transactions.items[i] : i \in 1..Len(transactions.items)}
    \cup (IF Answered
          THEN {response.transactions[i] : i \in 1..Len(response.transactions)}
          ELSE {})

\* C13: every transaction a strategy returns has amount >= 0 and
\* transactionType debit or credit; the regex parser's provisional type
\* 'unknown' is never returned, whether it parsed one transaction or more.
C13_TypedAndNonNegative ==
    \A t \in Returned :
        /\ t.amount >= 0
        /\ t.transactionType \in {"debit", "credit"}
        /\ t.transactionType # "unknown"

\* The regex parser returned a single transaction, and it is typed.
C13_Witness ==
    /\ TextAnswered
    /\ Len(response.transactions) = 1
    /\ response.transactions[1].transactionType = "debit"
    /\ response.transactions[1].amount > 0


\* parse_pdf_fast run once more, on the word records as its first run left them.
SecondFast ==
    LET numerics == _filter_numeric_tokens(all_words)
        spine == _find_best_balance_spine(numerics)
        txns == _infer_from_deltas(spine, WordsAfterFilter(all_words))
    IN IF spine = <<>> \/ Len(spine) < MinSpine THEN None
       ELSE IF _validate_mathematically(txns).is_valid THEN List(txns) ELSE None

ReadDatedLines ==
    {i \in 1..Len(file.text.lines) :
        /\ file.text.lines[i].date # <<>>
        /\ ~LineSkipped(file.text.lines[i])}
\* The characters of the date rule's result for a date written D/M/YY:
\* YYYY-MM-DD, a digit as its value and '-' as -1.
ExpectedIso(d) ==
    LET year == IF d.year < 50 THEN 2000 + d.year ELSE 1900 + d.year
    IN <<year \div 1000, (year \div 100) % 10, (year \div 10) % 10, year % 10, -1,
         d.month \div 10, d.month % 10, -1, d.day \div 10, d.day % 10>>

\* C15: in the regex parser a line starting with D/M/YY gets the year
\* 2000+YY when YY < 50 and 1900+YY otherwise, and its date is emitted
\* zero-padded as YYYY-MM-DD; the dates emitted are exactly those of the
\* dated lines read.
C15_TwoDigitYearRule ==
    TextAnswered =>
        /\ \A i \in ReadDatedLines :
              LET d == file.text.lines[i].date[1]
              IN d.year < 100 =>
                    \E k \in 1..Len(response.transactions) :
                        IsoChars(response.transactions[k].date) = ExpectedIso(d)
        /\ \A k \in 1..Len(response.transactions) :
              \E i \in ReadDatedLines :
                  IsoChars(response.transactions[k].date)
                      = ExpectedIso(file.text.lines[i].date[1])

\* A line starting 01/02/23 with a closing balance came back dated
\* 2023-02-01, and a line starting 15/8/99 dated 1999-08-15.
C15_Witness ==
    /\ TextAnswered
    /\ \E k \in 1..Len(response.transactions) :
          /\ IsoChars(response.transactions[k].date) = <<2, 0, 2, 3, -1, 0, 2, -1, 0, 1>>
          /\ response.transactions[k].closingBalance > 0
    /\ \E k \in 1..Len(response.transactions) :
          IsoChars(response.transactions[k].date) = <<1, 9, 9, 9, -1, 0, 8, -1, 1, 5>>


\* self.column_map as parse_pdf_slow built it for the uploaded statement
DetectedColumns == _detect_header_layout(file.words, file.num_pages).column_map

\* C16 as stated: the columns of the column map, sorted by X, are contiguous
\* non-overlapping half-open intervals: each right edge is the next left
\* edge, only the first left edge is padded (the others are where their
\* header words start), the last column ends at the sentinel, and a
\* midpoint lies in at most one interval.
C16_ColumnsPartition ==
    (file.opens /\ LastInvoked = "parse_pdf_slow") =>
        LET cm == DetectedColumns
        IN /\ \A i \in 1..(Len(cm) - 1) : cm[i].x1 = cm[i + 1].x0
           /\ \A i \in 2..Len(cm) :
                 \E j \in 1..Len(file.words) : file.words[j].x0 = cm[i].x0
           /\ cm # <<>> => cm[Len(cm)].x1 = MaxWidth
           /\ \A x \in 0..MaxWidth :
                 Cardinality({i \in 1..Len(cm) : cm[i].x0 <= x /\ x < cm[i].x1}) <= 1

----------------------------------------------------------------------------
(* Properties of the balance-spine strategy's stages                       *)

\* C17 as stated: no stage mutates the token records it receives: after
\* numeric filtering, spine detection and delta inference every input token
\* has the fields and values it had before, and the sequence keeps its order.
C17_TokensUntouched ==
    (file.opens /\ pc \in {"fast_spine", "fast_infer", "fast_validate", "fast_returned"})
        => all_words = file.words


\* C18 as stated: in the regex parser every line of at least 5 characters
\* that begins with D/M/Y starts a new transaction: as many transactions
\* are returned as there are such lines.
C18_EveryDatedLineCounts ==
    TextAnswered =>
        Len(response.transactions)
            = Cardinality({i \in 1..Len(file.text.lines) :
                              /\ file.text.lines[i].date # <<>>
                              /\ file.text.lines[i].chars >= 5})


\* The word w is a date written with a month name, on the row of the spine
\* token curr and left of it.
MonthNameDateOf(w, curr) ==
    /\ w.text.kind = "date" /\ w.text.mon
    /\ w.text.sep \in {"/", "-", "."}
    /\ w.page = curr.page
    /\ Abs(w.top - curr.top) < DateRowTolerance
    /\ w.x1 < curr.x0

\* C19 as stated: in the balance-spine date lookup a same-row token left of
\* the balance whose text is a date with a 3-letter month name is taken as
\* the row's date and converted to ISO with the month's number, so the row's
\* delta is emitted as a transaction.
C19_MonthNameDatesRead ==
    (Inferred /\ Len(balance_spine) >= MinSpine) =>
        \A i \in MovingPairs :
            \A j \in 1..Len(all_words) :
                MonthNameDateOf(all_words[j], balance_spine[i]) =>
                    \E k \in 1..Len(fast_txns) :
                        /\ ClosesPair(fast_txns[k], i)
                        /\ fast_txns[k].date.month = all_words[j].text.month
                        /\ fast_txns[k].date.day = all_words[j].text.day


\* temp_transactions as _process_transaction_rows collected them for the
\* uploaded statement, before _refine_and_validate
CollectedRows ==
    LET layout == _detect_header_layout(file.words, file.num_pages)
    IN ProcessRows(AllRows(file.words, 0, file.num_pages, layout.header_bottom_y),
                   layout.column_map, <<>>, <<>>)

\* C20 as stated: in the layout strategy an undated row extends the open
\* transaction's narration only after the noise filtering: a row with the
\* footer phrase 'Total Dr Count' adds nothing to the narration of the
\* transaction before it.
C20_NoiseRowsFiltered ==
    (file.opens /\ LastInvoked = "parse_pdf_slow") =>
        \A k \in 1..Len(CollectedRows) :
            \A j \in 1..Len(CollectedRows[k].merchantRaw) :
                CollectedRows[k].merchantRaw[j].kind # "footer"

----------------------------------------------------------------------------
(* Properties of the layout strategy's rows and footer                     *)

\* parse_pdf_slow has returned for a PDF it could open; its list is in
\* `transactions`.
LayoutReturned ==
    /\ pc \in {"respond", "text"}
    /\ LastInvoked = "parse_pdf_slow"
    /\ file.opens
\* The rows of the uploaded statement that carry a D/M/Y date.  Their
\* narration is "UPI", which matches none of the non-transaction markers.
SlashDatedRows ==
    {i \in 1..Len(file.words) :
        /\ file.words[i].text.kind = "date"
        /\ file.words[i].text.sep = "/"
        /\ ~file.words[i].text.mon}

\* C21 as stated: in the layout strategy every dated row whose own narration
\* matches none of the non-transaction markers yields exactly one
\* transaction, whatever undated rows follow it.
C21_DatedRowsKept ==
    LayoutReturned => Len(transactions.items) = Cardinality(SlashDatedRows)

----------------------------------------------------------------------------
(* Properties of the regex parser's type resolution                        *)

\* The amounts of the dated line a returned transaction was opened by (a
\* line with its date and narration, no continuation line added).
OpenedBy(t, line) ==
    /\ line.date # <<>>
    /\ line.rest = t.merchantRaw
    /\ IsoChars(t.date) = ExpectedIso(line.date[1])
\* |prev - amt - curr| < 1.0 and |prev + amt - curr| < 1.0, in cents
DebitCloses(prev, amt, curr) == Abs(prev - amt - curr) < 100
CreditCloses(prev, amt, curr) == Abs(prev + amt - curr) < 100
\* The positions of the raw amounts, the last excepted, that close an equation.
ClosingAmounts(amts, prev, curr) ==
    {j \in 1..(Len(amts) - 1) :
        DebitCloses(prev, amts[j], curr) \/ CreditCloses(prev, amts[j], curr)}

\* C22: for each transaction after the first of the sorted list the raw
\* amounts except the last are tried in order, the debit equation before the
\* credit equation; the first amount closing either fixes type and amount;
\* when none does the amount stays the line's first amount and the type is
\* the one the narration keywords give.
C22_FirstMatchWins ==
    TextAnswered =>
        \A k \in 2..Len(response.transactions) :
            \A i \in 1..Len(file.text.lines) :
                LET t == response.transactions[k]
                    prev == response.transactions[k - 1].closingBalance
                    amts == file.text.lines[i].amounts
                    closing == ClosingAmounts(amts, prev, t.closingBalance)
                IN OpenedBy(t, file.text.lines[i]) =>
                      IF closing # {}
                      THEN LET j == CHOOSE j \in closing : \A m \in closing : j <= m
                           IN /\ t.amount = amts[j]
                              /\ t.transactionType =
                                    IF DebitCloses(prev, amts[j], t.closingBalance)
                                    THEN "debit" ELSE "credit"
                      ELSE /\ t.amount = amts[1]
                           /\ t.transactionType = LaterHeuristic(Lower(t.merchantRaw))

\* After a deposit leaving 100.00, the line with amounts 18.00, 20.00 and
\* balance 80.00 came back as a debit of 20.00, its second amount.
C22_Witness ==
    /\ TextAnswered
    /\ Len(response.transactions) = 2
    /\ response.transactions[1].closingBalance = 10000
    /\ response.transactions[2].merchantRaw = "CHARGES GST"
    /\ response.transactions[2].transactionType = "debit"
    /\ response.transactions[2].amount = 2000


\* The words of the uploaded document that give a count of the kind `which`
\* ("dr" or "cr"), and the count the last of them in the document gives.
CountWords(which) == {i \in 1..Len(file.words) : file.words[i].text[which] # <<>>}
LastCountWord(which) ==
    CHOOSE i \in CountWords(which) :
        \A j \in CountWords(which) :
            \/ file.words[j].page < file.words[i].page
            \/ /\ file.words[j].page = file.words[i].page
               /\ file.words[j].top <= file.words[i].top
\* The same for the lines of the text the regex parser was given.
CountLines(which) ==
    {i \in 1..Len(extracted_text.lines) : extracted_text.lines[i][which] # <<>>}
LastCountOfText(which) ==
    LET i == CHOOSE i \in CountLines(which) : \A j \in CountLines(which) : j <= i
        counts == extracted_text.lines[i][which]
    IN counts[Len(counts)]
\* validation says what the document says about the counts of one kind.
FooterRead(v, key, declared, last) ==
    IF declared THEN v.foundFooter /\ v[key] = last ELSE v[key] = 0

\* C23 as stated: the footer validation of the layout strategy and of the
\* regex strategy searches the whole document and takes the last 'Total Dr
\* Count : N' and the last 'Total Cr Count : N' as expected counts;
\* foundFooter is true whenever either phrase occurs anywhere in it.
C23_LastFooterOfDocument ==
    /\ LayoutReturned =>
          /\ FooterRead(validation, "expectedDrCount", CountWords("dr") # {},
                        file.words[LastCountWord("dr")].text.dr[1])
          /\ FooterRead(validation, "expectedCrCount", CountWords("cr") # {},
                        file.words[LastCountWord("cr")].text.cr[1])
          /\ validation.foundFooter = (CountWords("dr") # {} \/ CountWords("cr") # {})
    /\ (pc = "respond" /\ LastInvoked = "parse_transactions_from_text") =>
          /\ FooterRead(validation, "expectedDrCount", CountLines("dr") # {},
                        LastCountOfText("dr"))
          /\ FooterRead(validation, "expectedCrCount", CountLines("cr") # {},
                        LastCountOfText("cr"))
          /\ validation.foundFooter = (CountLines("dr") # {} \/ CountLines("cr") # {})

----------------------------------------------------------------------------
(* Properties of the balance spine                                         *)

\* _find_best_balance_spine has returned for a PDF that opened.
SpineFound == IsPdf /\ file.opens /\ pc \notin {"idle", "fast", "fast_filter", "fast_spine"}
\* The clusters of the numeric tokens in creation order, and the
\* row-collapsed tokens of the c-th.
SpineClusters == ClusterByX(numeric_tokens, <<>>)
Collapsed(c) ==
    CollapseRows(SortedBy(SpineClusters[c].tokens, PageTopBefore), <<>>, -100, -1)
DenseClusters == {c \in 1..Len(SpineClusters) : Len(SpineClusters[c].tokens) >= 5}

\* C24: the spine is the row-collapsed token list of a cluster of at least
\* 5 tokens whose collapsed size is the largest among such clusters, the
\* earliest-created one on a tie; it is empty when no cluster has 5 tokens;
\* with an empty spine or one of fewer than 3 points parse_pdf_fast returns
\* no transactions.
C24_BestSpineChosen ==
    SpineFound =>
        /\ IF DenseClusters = {} THEN balance_spine = <<>>
           ELSE \E c \in DenseClusters :
                   /\ balance_spine = Collapsed(c)
                   /\ \A d \in DenseClusters :
                         /\ Len(Collapsed(d)) <= Len(Collapsed(c))
                         /\ d < c => Len(Collapsed(d)) < Len(Collapsed(c))
        /\ (Len(balance_spine) < 3 /\ pc = "fast_returned")
              => fast_result.transactions.none

\* Two clusters of 6 tokens collapse to 3 rows each and the one created
\* first, at x 300, is the spine.
C24_Witness ==
    /\ SpineFound
    /\ Cardinality(DenseClusters) = 2
    /\ Len(Collapsed(1)) = 3 /\ Len(Collapsed(2)) = 3
    /\ Len(balance_spine) = 3
    /\ balance_spine[1].x0 = 300


\* The numeric filter has run over the words of a PDF that opened.
Filtered == IsPdf /\ file.opens /\ pc \notin {"idle", "fast", "fast_filter"}
\* The word's text parses as a number once separators and a trailing Cr/Dr
\* are removed, has a decimal point, and its magnitude is below 100,000,000.
WithinCeiling(w) ==
    /\ w.text.kind = "num"
    /\ w.text.dot
    /\ LET units == IF w.text.whole THEN w.text.val ELSE w.text.val \div 100
           cents == IF w.text.whole THEN 0 ELSE w.text.val % 100
       IN /\ units < 100000000
          /\ units > -100000000 \/ (units = -100000000 /\ cents > 0)
\* numeric_tokens without the key the filter adds
Unmarked(tokens) == [i \in 1..Len(tokens) |-> [tokens[i] EXCEPT !.numeric_value = <<>>]]

\* C25 as stated: _filter_numeric_tokens returns, in input order, exactly
\* the tokens that parse as a number, have a decimal point in their text
\* and a magnitude below the ceiling 100,000,000.
C25_FilterByMagnitude ==
    Filtered => Unmarked(numeric_tokens) = SelectSeq(file.words, WithinCeiling)


\* C26: every balance spine is ordered by (page, top) and holds one token
\* per visual row: two consecutive members on the same page differ in top
\* by at least 5, also when near-duplicates less than 5 apart are chained.
C26_OneTokenPerRow ==
    SpineFound =>
        \A i \in 2..Len(balance_spine) :
            LET a == balance_spine[i - 1]
                b == balance_spine[i]
            IN /\ a.page <= b.page
               /\ a.page = b.page => b.top - a.top >= 5

\* Of three amounts printed 3 units apart on each of two rows, the spine
\* kept the first and the third: members 6 units apart.
C26_Witness ==
    /\ SpineFound
    /\ Len(balance_spine) = 4
    /\ balance_spine[2].top - balance_spine[1].top = 6
    /\ balance_spine[4].top - balance_spine[3].top = 6

----------------------------------------------------------------------------
(* Properties of the handler's last step                                   *)

\* C27 as stated: whatever the strategies did with a PDF, process_document
\* reaches the count computation with `transactions` bound to a list and
\* answers: the exhausted chain never ends in HTTP 500.
C27_ChainNeverFails ==
    (IsPdf /\ pc \in {"respond", "done", "failed"}) =>
        /\ ~transactions.none
        /\ pc # "failed"
        /\ pc = "done" => response.status = 200

----------------------------------------------------------------------------
(* Properties of the list returned by parse_pdf_fast                       *)

\* parse_pdf_fast has returned a list.
FastReturned ==
    /\ Inferred
    /\ pc # "fast_validate"
    /\ ~fast_result.transactions.none
Chained(prev, t) == prev.closingBalance + SignedAmount(t) = t.closingBalance

\* C28 as stated: in the list parse_pdf_fast returns, every transaction after
\* the first continues the balance of the one before it: the previous closing
\* balance plus the amount of a credit, or minus the amount of a debit, is
\* its own closing balance.
C28_UnbrokenChain ==
    FastReturned =>
        LET txns == fast_result.transactions.items
        IN \A k \in 2..Len(txns) : Chained(txns[k - 1], txns[k])

----------------------------------------------------------------------------
(* Properties shared by the three strategies                               *)

\* The dates written D/M/YY in the upload: in the words of its pages and at
\* the start of the lines of its text.
WrittenShortDates ==
    {[day |-> w.text.day, month |-> w.text.month, year |-> w.text.year] :
        w \in {file.words[i] : i \in {i \in 1..Len(file.words) :
                  /\ file.words[i].text.kind = "date"
                  /\ file.words[i].text.year < 100
                  /\ file.words[i].text.sep = "/"
                  /\ ~file.words[i].text.mon}}}
    \cup {file.text.lines[i].date[1] :
            i \in {i \in ReadDatedLines : file.text.lines[i].date[1].year < 100}}
AsWritten(d) == DateText(d.day, d.month, d.year, 2, "/", FALSE)

\* C29 as stated: a date written D/M/YY is read as the same day by the
\* balance-spine date lookup, the layout row assembler and the regex line
\* parser, and the date the handler answers for it is that day, whichever
\* strategy produced it.
C29_SameYearEverywhere ==
    Answered =>
        \A d \in WrittenShortDates :
            /\ FastDateToIso(AsWritten(d)) = <<SlowDateToIso(AsWritten(d))>>
            /\ SlowDateToIso(AsWritten(d)) = TextDateToIso(d)
            /\ \A k \in 1..Len(response.transactions) :
                  LET t == response.transactions[k].date
                  IN (t.day = d.day /\ t.month = d.month) => t = TextDateToIso(d)

----------------------------------------------------------------------------
(* Properties of the keyword heuristics of the regex parser                *)

\* The answered transactions parsed from a line with a single amount, for
\* which no balance equation is tried.
HeuristicallyTyped ==
    {k \in 1..Len(response.transactions) : SingleAmount(response.transactions[k])}

\* C30 as stated: when no arithmetic match applies the type depends on the
\* narration alone: two such transactions of one answer with the same
\* narration have the same type, and the type is the one the keywords give
\* the narration both by the rule for the first or only transaction and by
\* the rule for a later one.
C30_TypeFromNarrationAlone ==
    TextAnswered =>
        /\ \A j, k \in HeuristicallyTyped :
              response.transactions[j].merchantRaw = response.transactions[k].merchantRaw
                 => response.transactions[j].transactionType
                       = response.transactions[k].transactionType
        /\ \A k \in HeuristicallyTyped :
              LET t == response.transactions[k]
              IN /\ t.transactionType = FirstHeuristic(Lower(t.merchantRaw))
                 /\ t.transactionType = LaterHeuristic(Lower(t.merchantRaw))

====
